---------------------------- MODULE Spec2Model ----------------------------
(***************************************************************************)
(* A model of examples/search.py of django-datastar-examples: the          *)
(* in-memory SearchIndex, its QEntry filter, the relevance-ranked search   *)
(* and the process-wide index singleton.                                   *)
(*                                                                         *)
(* Text (title, description, content, the query) is a sequence of code     *)
(* points, so that str.lower(), the "in" operator, str.startswith() and    *)
(* the ordering of str are computed as Python computes them.  Urls,        *)
(* categories and types are never inspected by the code and are TLA+       *)
(* strings.                                                                *)
(***************************************************************************)
EXTENDS Integers, Sequences, FiniteSets, TLC

(***************************************************************************)
(* Bounds of the model.                                                    *)
(***************************************************************************)
\* the longest source list (examples plus documentation) an index is built from
MaxEntries == 2
\* search limits are drawn from -MaxLimit .. MaxLimit
MaxLimit == 2
\* the number of threads that call into the index concurrently
NumThreads == 2
\* the number of calls the threads make in total
MaxCalls == 4
\* the number of (field_lookup, value) children of a QEntry
MaxChildren == 2
\* the number of statements in the body of a view
MaxSteps == 3
\* the number of files in the temp directory
MaxFiles == 2
\* rows the Todo table has held in all, initial rows included
MaxTodos == 3
\* rows of the Notification table
MaxRows == 3
\* rows of the Item table, and keys in the 'order' signal
MaxItems == 2
\* requests in flight at the same time
MaxRequests == 2

(***************************************************************************)
(* Python values.                                                          *)
(***************************************************************************)
\* Python's None where a str is optional (learn_more_url); no url is this string
None == "<None>"

\* bool(x) of an Optional[str]: None and '' are falsy
Truthy(x) == x # None /\ x # ""

\* str.lower() of one code point: 'A'..'Z' (65..90) map to 'a'..'z'
LowerChar(c) == IF c >= 65 /\ c <= 90 THEN c + 32 ELSE c

\* str.lower() that leaves upper-case letters as they are
Lower_KeepsCase(s) == s

\* str.lower()
Lower(s) == [i \in 1..Len(s) |-> LowerChar(s[i])]

\* sub in s
Contains(sub, s) ==
    \E i \in 0..(Len(s) - Len(sub)) : SubSeq(s, i + 1, i + Len(sub)) = sub

\* s.startswith(prefix)
StartsWith(s, prefix) ==
    Len(prefix) <= Len(s) /\ SubSeq(s, 1, Len(prefix)) = prefix

\* s < t of two str: lexicographic by code point, a proper prefix first
StrLess(s, t) ==
    \E i \in 1..(Len(t)) :
        /\ i <= Len(s) + 1
        /\ \A j \in 1..(i - 1) : s[j] = t[j]
        /\ (i = Len(s) + 1 \/ s[i] < t[i])

(***************************************************************************)
(* SearchIndexEntry.                                                       *)
(***************************************************************************)
\* SearchIndexEntry(...) as _build_index constructs it from a source item
SearchIndexEntry(item, type, learn_more_url) ==
    [title          |-> item.title,
     description    |-> item.description,
     content        |-> item.content,
     url            |-> item.url,
     type           |-> type,
     category       |-> item.category,
     learn_more_url |-> learn_more_url]

\* to_dict with "is not None" in place of the truth test of learn_more_url
to_dict_IsNotNone(self) ==
    LET result == [k \in {"title", "description", "url", "type", "category"} |->
                      CASE k = "title"       -> self.title
                        [] k = "description" -> self.description
                        [] k = "url"         -> self.url
                        [] k = "type"        -> self.type
                        [] k = "category"    -> self.category]
    IN  IF self.learn_more_url # None
        THEN result @@ ("learn_more_url" :> self.learn_more_url)
        ELSE result

\* SearchIndexEntry.to_dict: a dict is a function on its keys
to_dict(self) ==
    LET result == [k \in {"title", "description", "url", "type", "category"} |->
                      CASE k = "title"       -> self.title
                        [] k = "description" -> self.description
                        [] k = "url"         -> self.url
                        [] k = "type"        -> self.type
                        [] k = "category"    -> self.category]
    IN  IF Truthy(self.learn_more_url)
        THEN result @@ ("learn_more_url" :> self.learn_more_url)
        ELSE result

\* get_q_field_value with the title as the default of field_map.get
get_q_field_value_DefaultTitle(self, field_name) ==
    CASE field_name = "title"       -> self.title
      [] field_name = "description" -> self.description
      [] field_name = "content"     -> self.content
      [] OTHER                      -> self.title

\* SearchIndexEntry.get_q_field_value
get_q_field_value(self, field_name) ==
    CASE field_name = "title"       -> self.title
      [] field_name = "description" -> self.description
      [] field_name = "content"     -> self.content
      [] OTHER                      -> << >>

(***************************************************************************)
(* QEntry.  A Q object holds children (field_lookup, value); a             *)
(* field_lookup 'title__icontains' is kept as its parts <<"title",         *)
(* "icontains">>, 'title' as <<"title">>.                                  *)
(***************************************************************************)
QEntry(field_lookup, value) == [children |-> << <<field_lookup, value>> >>]

\* CheckChild with icontains testing "value in field_value.lower()"
CheckChild_ValueNotLowered(child, entry) ==
    LET field_lookup == child[1]
        value        == child[2]
        field_name   == field_lookup[1]
        lookup       == IF Len(field_lookup) > 1
                        THEN Tail(field_lookup) ELSE <<"exact">>
        field_value  == get_q_field_value(entry, field_name)
    IN  CASE lookup = <<"icontains">> -> Contains(value, Lower(field_value))
          [] lookup = <<"contains">>  -> Contains(value, field_value)
          [] lookup = <<"exact">>     -> field_value = value
          [] lookup = <<"iexact">>    -> Lower(field_value) = Lower(value)
          [] OTHER                    -> TRUE

\* one child of QEntry.check: FALSE where the loop body returns False
CheckChild(child, entry) ==
    LET field_lookup == child[1]
        value        == child[2]
        field_name   == field_lookup[1]
        lookup       == IF Len(field_lookup) > 1
                        THEN Tail(field_lookup) ELSE <<"exact">>
        field_value  == get_q_field_value(entry, field_name)
    IN  CASE lookup = <<"icontains">> -> Contains(Lower(value), Lower(field_value))
          [] lookup = <<"contains">>  -> Contains(value, field_value)
          [] lookup = <<"exact">>     -> field_value = value
          [] lookup = <<"iexact">>    -> Lower(field_value) = Lower(value)
          [] OTHER                    -> TRUE

\* QEntry.check returning True as soon as one child holds
check_AnyChild(self, entry) ==
    \/ Len(self.children) = 0
    \/ \E i \in 1..Len(self.children) : CheckChild(self.children[i], entry)

\* QEntry.check
check(self, entry) ==
    \A i \in 1..Len(self.children) : CheckChild(self.children[i], entry)

\* create_search_q
create_search_q(query) ==
    [title_q   |-> QEntry(<<"title", "icontains">>, query),
     desc_q    |-> QEntry(<<"description", "icontains">>, query),
     content_q |-> QEntry(<<"content", "icontains">>, query)]

(***************************************************************************)
(* SearchIndex.search, step by step.                                       *)
(***************************************************************************)
\* ScoreEntry with the bonus tested by entry.title.lower().startswith(query)
ScoreEntry_QueryNotLowered(entry, query) ==
    LET q      == create_search_q(query)
        title  == check(q.title_q, entry)
        score1 == IF title THEN 100 ELSE 0
        match1 == IF title THEN 3 ELSE 0
        score2 == IF title /\ StartsWith(Lower(entry.title), query)
                  THEN score1 + 20 ELSE score1
        desc   == check(q.desc_q, entry)
        score3 == IF desc THEN score2 + 50 ELSE score2
        match3 == IF desc /\ match1 < 2 THEN 2 ELSE match1
        cont   == check(q.content_q, entry)
        score4 == IF cont THEN score3 + 25 ELSE score3
        match4 == IF cont /\ match3 < 1 THEN 1 ELSE match3
    IN  [score |-> score4, match_type |-> match4]

\* ScoreEntry with the start bonus given to every title match
ScoreEntry_BonusOnAnyTitleMatch(entry, query) ==
    LET q      == create_search_q(query)
        title  == check(q.title_q, entry)
        score1 == IF title THEN 100 ELSE 0
        match1 == IF title THEN 3 ELSE 0
        score2 == IF title THEN score1 + 20 ELSE score1
        desc   == check(q.desc_q, entry)
        score3 == IF desc THEN score2 + 50 ELSE score2
        match3 == IF desc /\ match1 < 2 THEN 2 ELSE match1
        cont   == check(q.content_q, entry)
        score4 == IF cont THEN score3 + 25 ELSE score3
        match4 == IF cont /\ match3 < 1 THEN 1 ELSE match3
    IN  [score |-> score4, match_type |-> match4]

\* ScoreEntry with a description match scoring 100, as a title match does
ScoreEntry_DescriptionScores100(entry, query) ==
    LET q      == create_search_q(query)
        title  == check(q.title_q, entry)
        score1 == IF title THEN 100 ELSE 0
        match1 == IF title THEN 3 ELSE 0
        score2 == IF title /\ StartsWith(Lower(entry.title), Lower(query))
                  THEN score1 + 20 ELSE score1
        desc   == check(q.desc_q, entry)
        score3 == IF desc THEN score2 + 100 ELSE score2
        match3 == IF desc /\ match1 < 2 THEN 2 ELSE match1
        cont   == check(q.content_q, entry)
        score4 == IF cont THEN score3 + 25 ELSE score3
        match4 == IF cont /\ match3 < 1 THEN 1 ELSE match3
    IN  [score |-> score4, match_type |-> match4]

\* the body of the scoring loop for one entry: (score, match_type)
ScoreEntry(entry, query) ==
    LET q      == create_search_q(query)
        title  == check(q.title_q, entry)
        score1 == IF title THEN 100 ELSE 0
        match1 == IF title THEN 3 ELSE 0
        score2 == IF title /\ StartsWith(Lower(entry.title), Lower(query))
                  THEN score1 + 20 ELSE score1
        desc   == check(q.desc_q, entry)
        score3 == IF desc THEN score2 + 50 ELSE score2
        match3 == IF desc /\ match1 < 2 THEN 2 ELSE match1
        cont   == check(q.content_q, entry)
        score4 == IF cont THEN score3 + 25 ELSE score3
        match4 == IF cont /\ match3 < 1 THEN 1 ELSE match3
    IN  [score |-> score4, match_type |-> match4]

\* ScoreStep with "if score >= 0"
ScoreStep_KeepAll(scored_results, entry, query) ==
    LET r == ScoreEntry(entry, query)
    IN  IF r.score >= 0
        THEN Append(scored_results, <<r.score, r.match_type, entry>>)
        ELSE scored_results

\* one iteration of the loop: scored_results after the entry was looked at
ScoreStep(scored_results, entry, query) ==
    LET r == ScoreEntry(entry, query)
    IN  IF r.score > 0
        THEN Append(scored_results, <<r.score, r.match_type, entry>>)
        ELSE scored_results

\* scored_results after the loop over entries
RECURSIVE ScoredResults(_, _)
ScoredResults(entries, query) ==
    IF entries = << >> THEN << >>
    ELSE ScoreStep(ScoredResults(SubSeq(entries, 1, Len(entries) - 1), query),
                   entries[Len(entries)], query)

\* KeyLess for the key (x[0], x[1], x[2].title): the score ascending
KeyLess_ScoreAscending(x, y) ==
    \/ x[1] < y[1]
    \/ x[1] = y[1] /\ x[2] < y[2]
    \/ x[1] = y[1] /\ x[2] = y[2] /\ StrLess(x[3].title, y[3].title)

\* KeyLess for the key (-x[0], x[1]): no title in the key
KeyLess_NoTitle(x, y) ==
    \/ -x[1] < -y[1]
    \/ x[1] = y[1] /\ x[2] < y[2]

\* the sort key (-x[0], x[1], x[2].title), compared as Python compares tuples
KeyLess(x, y) ==
    \/ -x[1] < -y[1]
    \/ x[1] = y[1] /\ x[2] < y[2]
    \/ x[1] = y[1] /\ x[2] = y[2] /\ StrLess(x[3].title, y[3].title)

\* x placed behind every element of the sorted list whose key is not greater
RECURSIVE InsertByKey(_, _)
InsertByKey(sorted, x) ==
    IF sorted = << >> THEN <<x>>
    ELSE IF KeyLess(x, Head(sorted)) THEN <<x>> \o sorted
    ELSE <<Head(sorted)>> \o InsertByKey(Tail(sorted), x)

\* list.sort(key=...): a stable sort
RECURSIVE SortScored(_)
SortScored(scored_results) ==
    IF scored_results = << >> THEN << >>
    ELSE InsertByKey(
             SortScored(SubSeq(scored_results, 1, Len(scored_results) - 1)),
             scored_results[Len(scored_results)])

\* SliceTo for the slice s[:limit + 1]
SliceTo_OneMore(s, limit) ==
    IF limit + 1 >= 0
    THEN SubSeq(s, 1, IF limit + 1 < Len(s) THEN limit + 1 ELSE Len(s))
    ELSE SubSeq(s, 1, IF Len(s) + limit + 1 > 0 THEN Len(s) + limit + 1 ELSE 0)

\* the slice s[:limit]; a negative limit counts from the end
SliceTo(s, limit) ==
    IF limit >= 0
    THEN SubSeq(s, 1, IF limit < Len(s) THEN limit ELSE Len(s))
    ELSE SubSeq(s, 1, IF Len(s) + limit > 0 THEN Len(s) + limit ELSE 0)

\* Ranked without the early return for the empty query
Ranked_NoEarlyReturn(entries, query, limit) ==
    SliceTo(SortScored(ScoredResults(entries, query)), limit)

\* scored_results[:limit] after the sort: what the returned list is made from
Ranked(entries, query, limit) ==
    IF query = << >> THEN << >>
    ELSE SliceTo(SortScored(ScoredResults(entries, query)), limit)

\* the list search returns from the ranked tuples
Project(ranked) == [i \in 1..Len(ranked) |-> to_dict(ranked[i][3])]

\* SearchIndex.search over the entries of the index
search(entries, query, limit) == Project(Ranked(entries, query, limit))

(***************************************************************************)
(* The inputs: source items, queries and limits.                           *)
(* Code points: 'A' = 65, 'B' = 66, 'a' = 97, 'b' = 98.                    *)
(***************************************************************************)
\* titles "B", "Ba", "ab"
TitlePool == { <<66>>, <<66, 97>>, <<97, 98>> }
\* descriptions "b", "Ab"
DescriptionPool == { <<98>>, <<65, 98>> }
\* contents "" (also an item without the key: item.get('content', '')), "a"
ContentPool == { << >>, <<97>> }
\* item.get('learn_more_url'): None for an item without the key
LearnMorePool == { None, "", "/docs/x/" }

\* the records of the example source: every text with a learn_more_url, as
\* auto_discover_examples makes them; a missing or empty learn_more_url, which
\* only to_dict looks at, with one description and content
ExampleItems ==
    { item \in [title : TitlePool, description : DescriptionPool,
                content : ContentPool, url : {"/x/"}, category : {"Search"},
                learn_more_url : LearnMorePool] :
        item.learn_more_url # "/docs/x/" =>
            item.description = <<98>> /\ item.content = << >> }

\* the records of the documentation source
DocItems ==
    [title : TitlePool, description : { <<65, 98>> }, content : { <<97>> },
     url : {"/docs/"}, category : {"Documentation"}]

\* the sequences over S of length 0..n
SeqUpTo(S, n) == UNION { [1..k -> S] : k \in 0..n }

\* queries "", "a", "A", "ab", "aB"
Queries == { << >>, <<97>>, <<65>>, <<97, 98>>, <<97, 66>> }

Limits == (-MaxLimit)..MaxLimit

(***************************************************************************)
(* The state.                                                              *)
(***************************************************************************)
VARIABLES
    AUTO_DISCOVERED_EXAMPLES, \* the example source, a list of ExampleItems
    DOCS_DATA,                \* the documentation source, a list of DocItems
    lists,                    \* the list objects of the heap: id -> its items
    objects,                  \* the SearchIndex objects: id -> [entries: list id]
    _search_index,            \* the global: 0 for None, or a SearchIndex id
    threads,                  \* per thread: the call it is in and its locals
    call,                     \* the last call of the sequential caller
    messages,                 \* the message storage of the request
    default_storage,          \* the file storage: the temp directory's files
    Todo,                     \* the rows of the Todo table: pk -> row
    Notification,             \* the rows of the Notification table: pk -> row
    Item,                     \* the rows of the Item table: pk -> row
    requests                  \* the requests being served: the view and its locals

\* what the search module does not touch: the request, the storage, the tables
web == <<messages, default_storage, Todo, Notification, Item, requests>>

vars == <<AUTO_DISCOVERED_EXAMPLES, DOCS_DATA, lists, objects, _search_index,
          threads, call, web>>

\* the empty Todo table: no row, and no primary key given out yet
NoTodo == [rows |-> << >>, seq |-> 0]

\* no message, no temp directory, empty tables, no request
NoWeb ==
    /\ messages = [queue |-> << >>, used |-> FALSE]
    /\ default_storage = [exists |-> FALSE, files |-> << >>]
    /\ Todo = NoTodo
    /\ Notification = << >>
    /\ Item = << >>
    /\ requests = << >>

Threads == 1..NumThreads

\* the number of items _build_index appends
SourceLen == Len(AUTO_DISCOVERED_EXAMPLES) + Len(DOCS_DATA)

\* _build_index with the documentation loop before the example loop
SourceEntry_DocsFirst(k) ==
    IF k <= Len(DOCS_DATA)
    THEN SearchIndexEntry(DOCS_DATA[k], "doc", None)
    ELSE SearchIndexEntry(AUTO_DISCOVERED_EXAMPLES[k - Len(DOCS_DATA)], "example",
                          AUTO_DISCOVERED_EXAMPLES[k - Len(DOCS_DATA)].learn_more_url)

\* _build_index giving documentation entries the type "documentation"
SourceEntry_DocTypeDocumentation(k) ==
    IF k <= Len(AUTO_DISCOVERED_EXAMPLES)
    THEN SearchIndexEntry(AUTO_DISCOVERED_EXAMPLES[k], "example",
                          AUTO_DISCOVERED_EXAMPLES[k].learn_more_url)
    ELSE SearchIndexEntry(DOCS_DATA[k - Len(AUTO_DISCOVERED_EXAMPLES)],
                          "documentation", None)

\* the k-th append of _build_index: the examples first, then the documentation
SourceEntry(k) ==
    IF k <= Len(AUTO_DISCOVERED_EXAMPLES)
    THEN SearchIndexEntry(AUTO_DISCOVERED_EXAMPLES[k], "example",
                          AUTO_DISCOVERED_EXAMPLES[k].learn_more_url)
    ELSE SearchIndexEntry(DOCS_DATA[k - Len(AUTO_DISCOVERED_EXAMPLES)], "doc", None)

\* SearchIndex._build_index run to its end on the list entries
_build_index(entries) == entries \o [k \in 1..SourceLen |-> SourceEntry(k)]

\* a thread that is in no call
IdleThread ==
    [pc |-> "idle", op |-> "none", calls |-> 0, index |-> 0, self |-> 0,
     k |-> 0, it |-> 0, idx |-> 0, query |-> << >>, limit |-> 0,
     scored_results |-> << >>, seen |-> << >>, result |-> << >>]

\* the sequential caller before its first call
NoCall ==
    [op |-> "none", query |-> << >>, limit |-> 0, ranked |-> << >>,
     result |-> << >>]

(***************************************************************************)
(* SpecSearch: one caller, one SearchIndex() built from any source within  *)
(* the bounds, searched with any query and limit.                          *)
(***************************************************************************)
\* the example source of the two-entry scenario: "Active Search" with
\* "search contacts" and "datastar search example", "Click to Load" with
\* "pagination" and "load button"
ScenarioExamples ==
    << [title |-> <<65, 99, 116, 105, 118, 101, 32, 83, 101, 97, 114, 99, 104>>,
        description |-> <<115, 101, 97, 114, 99, 104, 32, 99, 111, 110, 116,
                          97, 99, 116, 115>>,
        content |-> <<100, 97, 116, 97, 115, 116, 97, 114, 32, 115, 101, 97,
                      114, 99, 104, 32, 101, 120, 97, 109, 112, 108, 101>>,
        url |-> "/x/", category |-> "Search", learn_more_url |-> "/docs/x/"],
       [title |-> <<67, 108, 105, 99, 107, 32, 116, 111, 32, 76, 111, 97, 100>>,
        description |-> <<112, 97, 103, 105, 110, 97, 116, 105, 111, 110>>,
        content |-> <<108, 111, 97, 100, 32, 98, 117, 116, 116, 111, 110>>,
        url |-> "/x/", category |-> "Interactive", learn_more_url |-> "/docs/x/"] >>

\* the queries of the scenario: "search", "load"
ScenarioQueries == { <<115, 101, 97, 114, 99, 104>>, <<108, 111, 97, 100>> }

\* the limits of the scenario: limit=1 and the default limit
ScenarioLimits == { 1, 10 }

\* the queries and limits the caller of SpecSearch draws from
SearchQueries ==
    IF AUTO_DISCOVERED_EXAMPLES = ScenarioExamples THEN ScenarioQueries
    ELSE Queries

SearchLimits ==
    IF AUTO_DISCOVERED_EXAMPLES = ScenarioExamples THEN ScenarioLimits
    ELSE Limits

InitSearch ==
    /\ \/ /\ AUTO_DISCOVERED_EXAMPLES \in SeqUpTo(ExampleItems, MaxEntries)
          /\ DOCS_DATA \in SeqUpTo(DocItems,
                                    MaxEntries - Len(AUTO_DISCOVERED_EXAMPLES))
       \/ /\ AUTO_DISCOVERED_EXAMPLES = ScenarioExamples
          /\ DOCS_DATA = << >>
    /\ lists = << _build_index(<< >>) >>
    /\ objects = << [entries |-> 1] >>
    /\ _search_index = 0
    /\ threads = [t \in Threads |-> IdleThread]
    /\ call = NoCall
    /\ NoWeb

\* index.search(query, limit) on the index, from call to return.  search assigns
\* nothing of the index, so the caller's second search would start from the
\* same index: the caller makes one.
Search(query, limit) ==
    /\ call.op # "search"
    /\ call' = [op     |-> "search",
                query  |-> query,
                limit  |-> limit,
                ranked |-> Ranked(lists[objects[1].entries], query, limit),
                result |-> search(lists[objects[1].entries], query, limit)]
    /\ UNCHANGED <<AUTO_DISCOVERED_EXAMPLES, DOCS_DATA, lists, objects,
                   _search_index, threads, web>>

NextSearch ==
    \E query \in SearchQueries, limit \in SearchLimits : Search(query, limit)

SpecSearch == InitSearch /\ [][NextSearch]_vars

(***************************************************************************)
(* SpecQ: one caller evaluating one QEntry condition on an entry of a      *)
(* built index.                                                            *)
(***************************************************************************)
\* field names of a condition: the three of field_map, an attribute of the
\* entry that field_map does not hold, and a name no entry has
FieldNames == { "title", "description", "content", "category", "slug" }

\* what follows the field name in a field_lookup: nothing, the four lookups
\* check tests, one it does not, and a suffix with a further "__"
Lookups ==
    { << >>, <<"icontains">>, <<"contains">>, <<"exact">>, <<"iexact">>,
      <<"startswith">>, <<"icontains", "x">> }

\* values of a condition: "", "a", "A", "Ba"
Values == { << >>, <<97>>, <<65>>, <<66, 97>> }

InitQ ==
    /\ AUTO_DISCOVERED_EXAMPLES \in { <<item>> : item \in ExampleItems }
    /\ DOCS_DATA \in { << >> } \cup { <<item>> : item \in DocItems }
    /\ lists = << _build_index(<< >>) >>
    /\ objects = << [entries |-> 1] >>
    /\ _search_index = 0
    /\ threads = [t \in Threads |-> IdleThread]
    /\ call = NoCall
    /\ NoWeb

\* QEntry(**{field_lookup: value}).check(entry) on the i-th entry of the
\* index, from call to return, with what entry.get_q_field_value gave it
Check(field_name, lookup, value, i) ==
    /\ call.op = "none"
    /\ LET entry == lists[objects[1].entries][i]
           self  == QEntry(<<field_name>> \o lookup, value)
       IN  call' = [op          |-> "check",
                    field_name  |-> field_name,
                    lookup      |-> lookup,
                    value       |-> value,
                    entry       |-> entry,
                    field_value |-> get_q_field_value(entry, field_name),
                    result      |-> check(self, entry)]
    /\ UNCHANGED <<AUTO_DISCOVERED_EXAMPLES, DOCS_DATA, lists, objects,
                   _search_index, threads, web>>

\* the (field_lookup, value) children a QEntry of several conditions is made
\* of: on the title, icontains, exact or a lookup check does not test, with
\* "a" or "B"; on an unknown field, icontains or the untested lookup with "a"
Conditions ==
    { << <<"title">> \o lookup, value >> :
        lookup \in { <<"icontains">>, <<"exact">>, <<"startswith">> },
        value \in { <<97>>, <<66>> } }
    \cup { << <<"slug">> \o lookup, <<97>> >> :
             lookup \in { <<"icontains">>, <<"startswith">> } }

\* QEntry(*children).check(entry) on the i-th entry of the index, from call to
\* return
CheckAll(children, i) ==
    /\ call.op = "none"
    /\ LET entry == lists[objects[1].entries][i]
           self  == [children |-> children]
       IN  call' = [op       |-> "check_all",
                    children |-> children,
                    entry    |-> entry,
                    result   |-> check(self, entry)]
    /\ UNCHANGED <<AUTO_DISCOVERED_EXAMPLES, DOCS_DATA, lists, objects,
                   _search_index, threads, web>>

NextQ ==
    \/ \E field_name \in FieldNames, lookup \in Lookups, value \in Values,
          i \in 1..Len(lists[objects[1].entries]) :
           Check(field_name, lookup, value, i)
    \/ \E children \in SeqUpTo(Conditions, MaxChildren),
          i \in 1..Len(lists[objects[1].entries]) :
           CheckAll(children, i)

SpecQ == InitQ /\ [][NextQ]_vars

(***************************************************************************)
(* Spec: threads calling into the module.  A thread obtains the global     *)
(* index with get_search_index() or rebuild_search_index() and then calls  *)
(* rebuild(), search() or get_all_entries() on the index it holds.  A step *)
(* is one read or write of shared state (a global, an attribute, a list    *)
(* append, one turn of a loop over a shared list).                         *)
(***************************************************************************)
\* the example source of Spec: "ab" and "Ba"
SpecExamples ==
    << [title |-> <<97, 98>>, description |-> <<65, 98>>, content |-> <<97>>,
        url |-> "/x/", category |-> "Search", learn_more_url |-> "/docs/x/"],
       [title |-> <<66, 97>>, description |-> <<98>>, content |-> << >>,
        url |-> "/x/", category |-> "Search", learn_more_url |-> "/docs/x/"] >>

\* the queries and limits the threads of Spec search with: "", "a"; 1, which
\* cuts the two matches of "a" down to one
SpecQueries == { << >>, <<97>> }
SpecLimits == { 1 }

Init ==
    /\ AUTO_DISCOVERED_EXAMPLES = SpecExamples
    /\ DOCS_DATA = << >>
    /\ lists = << >>
    /\ objects = << >>
    /\ _search_index = 0
    /\ threads = [t \in Threads |-> IdleThread]
    /\ call = NoCall
    /\ NoWeb

Unshared == <<AUTO_DISCOVERED_EXAMPLES, DOCS_DATA, call, web>>

\* the calls of threads 1..n that have returned or are under way
RECURSIVE CallsMade(_)
CallsMade(n) ==
    IF n = 0 THEN 0
    ELSE CallsMade(n - 1) + threads[n].calls
         + (IF threads[n].pc = "idle" THEN 0 ELSE 1)

\* a thread may start a call
CanCall(t) == threads[t].pc = "idle" /\ CallsMade(NumThreads) < MaxCalls

\* the thread's record when its call returns
Returned(th) == [th EXCEPT !.pc = "idle", !.calls = @ + 1]

\* get_search_index() constructing an index whatever the global holds
AfterNoneTest_AlwaysNew == "new"

\* where "if _search_index is None" of get_search_index() sends its caller: to
\* the constructor or to the return
AfterNoneTest == IF _search_index = 0 THEN "new" ELSE "return"

\* get_search_index(): the test "_search_index is None"
get_search_index(t) ==
    /\ CanCall(t)
    /\ threads' = [threads EXCEPT ![t] =
           [@ EXCEPT !.op = "get_search_index",
                     !.pc = AfterNoneTest]]
    /\ UNCHANGED <<lists, objects, _search_index, Unshared>>

\* rebuild_search_index(): the call
rebuild_search_index(t) ==
    /\ CanCall(t)
    /\ threads' = [threads EXCEPT ![t] =
           [@ EXCEPT !.op = "rebuild_search_index", !.pc = "new"]]
    /\ UNCHANGED <<lists, objects, _search_index, Unshared>>

\* SearchIndex.__init__ that stores the new object in the global before
\* _build_index has run
SearchIndex__init___PublishesFirst(t) ==
    /\ threads[t].pc = "new"
    /\ lists' = Append(lists, << >>)
    /\ objects' = Append(objects, [entries |-> Len(lists) + 1])
    /\ _search_index' = Len(objects) + 1
    /\ threads' = [threads EXCEPT ![t] =
           [@ EXCEPT !.self = Len(objects) + 1, !.k = 0, !.pc = "build"]]
    /\ UNCHANGED Unshared

\* SearchIndex.__init__: self.entries = [] of a new object
SearchIndex__init__(t) ==
    /\ threads[t].pc = "new"
    /\ lists' = Append(lists, << >>)
    /\ objects' = Append(objects, [entries |-> Len(lists) + 1])
    /\ threads' = [threads EXCEPT ![t] =
           [@ EXCEPT !.self = Len(objects) + 1, !.k = 0, !.pc = "build"]]
    /\ UNCHANGED <<_search_index, Unshared>>

\* rebuild without "self.entries = []"
rebuild_NoClear(t) ==
    /\ CanCall(t)
    /\ threads[t].index # 0
    /\ threads' = [threads EXCEPT ![t] =
           [@ EXCEPT !.op = "rebuild", !.self = threads[t].index, !.k = 0,
                     !.pc = "build"]]
    /\ UNCHANGED <<lists, objects, _search_index, Unshared>>

\* SearchIndex.rebuild on the index the thread holds: self.entries = []
rebuild(t) ==
    /\ CanCall(t)
    /\ threads[t].index # 0
    /\ lists' = Append(lists, << >>)
    /\ objects' = [objects EXCEPT ![threads[t].index].entries = Len(lists) + 1]
    /\ threads' = [threads EXCEPT ![t] =
           [@ EXCEPT !.op = "rebuild", !.self = threads[t].index, !.k = 0,
                     !.pc = "build"]]
    /\ UNCHANGED <<_search_index, Unshared>>

\* _build_index: one self.entries.append(SearchIndexEntry(...))
_build_index_append(t) ==
    /\ threads[t].pc = "build"
    /\ threads[t].k < SourceLen
    /\ lists' = [lists EXCEPT ![objects[threads[t].self].entries] =
                     Append(@, SourceEntry(threads[t].k + 1))]
    /\ threads' = [threads EXCEPT ![t] = [@ EXCEPT !.k = @ + 1]]
    /\ UNCHANGED <<objects, _search_index, Unshared>>

\* _build_index returns: rebuild() is over, a constructor's caller stores the object
_build_index_return(t) ==
    /\ threads[t].pc = "build"
    /\ threads[t].k = SourceLen
    /\ threads' = [threads EXCEPT ![t] =
           IF @.op = "rebuild" THEN Returned(@) ELSE [@ EXCEPT !.pc = "assign"]]
    /\ UNCHANGED <<lists, objects, _search_index, Unshared>>

\* _search_index = SearchIndex(): the store to the global
assign_search_index(t) ==
    /\ threads[t].pc = "assign"
    /\ _search_index' = threads[t].self
    /\ threads' = [threads EXCEPT ![t] = [@ EXCEPT !.pc = "return"]]
    /\ UNCHANGED <<lists, objects, Unshared>>

\* the functions whose first statement is index = get_search_index()
ViaGetSearchIndex ==
    {"module_search", "get_all_examples", "get_all_docs", "get_index_stats"}

\* return _search_index: the global is read again; inside one of the functions
\* above the caller goes on with the index it got
return_search_index(t) ==
    /\ threads[t].pc = "return"
    /\ threads' = [threads EXCEPT ![t] =
           IF @.op \in ViaGetSearchIndex
           THEN [@ EXCEPT !.index = _search_index, !.pc = "got"]
           ELSE Returned([@ EXCEPT !.index = _search_index])]
    /\ UNCHANGED <<lists, objects, _search_index, Unshared>>

\* index.search(query, limit) up to the start of the loop: the empty query
\* returns [], otherwise the loop takes an iterator of self.entries
search_call(t, query, limit) ==
    /\ CanCall(t)
    /\ threads[t].index # 0
    /\ threads' = [threads EXCEPT ![t] =
           IF query = << >>
           THEN Returned([@ EXCEPT !.op = "search", !.query = query,
                                   !.limit = limit, !.scored_results = << >>,
                                   !.seen = << >>, !.result = << >>])
           ELSE [@ EXCEPT !.op = "search", !.query = query, !.limit = limit,
                          !.it = objects[threads[t].index].entries, !.idx = 0,
                          !.scored_results = << >>, !.seen = << >>,
                          !.result = << >>, !.pc = "loop"]]
    /\ UNCHANGED <<lists, objects, _search_index, Unshared>>

\* the module's search(query, limit): index = get_search_index(), at its test
module_search(t, query, limit) ==
    /\ CanCall(t)
    /\ threads' = [threads EXCEPT ![t] =
           [@ EXCEPT !.op = "module_search", !.query = query, !.limit = limit,
                     !.pc = AfterNoneTest]]
    /\ UNCHANGED <<lists, objects, _search_index, Unshared>>

\* the module's search: return index.search(query, limit), up to the loop
module_search_index_search(t) ==
    /\ threads[t].pc = "got"
    /\ threads[t].op = "module_search"
    /\ threads' = [threads EXCEPT ![t] =
           IF threads[t].query = << >>
           THEN Returned([@ EXCEPT !.scored_results = << >>, !.seen = << >>,
                                   !.result = << >>])
           ELSE [@ EXCEPT !.it = objects[threads[t].index].entries, !.idx = 0,
                          !.scored_results = << >>, !.seen = << >>,
                          !.result = << >>, !.pc = "loop"]]
    /\ UNCHANGED <<lists, objects, _search_index, Unshared>>

\* one turn of "for entry in self.entries": the next item of the list, scored
search_loop(t) ==
    /\ threads[t].pc = "loop"
    /\ threads[t].idx < Len(lists[threads[t].it])
    /\ LET entry == lists[threads[t].it][threads[t].idx + 1]
       IN  threads' = [threads EXCEPT ![t] =
               [@ EXCEPT !.idx = @ + 1,
                         !.seen = Append(@, entry),
                         !.scored_results =
                             ScoreStep(@, entry, threads[t].query)]]
    /\ UNCHANGED <<lists, objects, _search_index, Unshared>>

\* search that also cuts self.entries down to the limit
search_return_CutsIndex(t) ==
    /\ threads[t].pc = "loop"
    /\ threads[t].idx >= Len(lists[threads[t].it])
    /\ threads' = [threads EXCEPT ![t] =
           Returned([@ EXCEPT !.result =
               Project(SliceTo(SortScored(threads[t].scored_results),
                               threads[t].limit))])]
    /\ lists' = [lists EXCEPT ![threads[t].it] = SliceTo(@, threads[t].limit)]
    /\ UNCHANGED <<objects, _search_index, Unshared>>

\* the iterator is exhausted: sort, slice, convert, return
search_return(t) ==
    /\ threads[t].pc = "loop"
    /\ threads[t].idx >= Len(lists[threads[t].it])
    /\ threads' = [threads EXCEPT ![t] =
           Returned([@ EXCEPT !.result =
               Project(SliceTo(SortScored(threads[t].scored_results),
                               threads[t].limit))])]
    /\ UNCHANGED <<lists, objects, _search_index, Unshared>>

\* index.get_all_entries(): the list self.entries itself is returned; seen is
\* what the caller finds in it on return
get_all_entries(t) ==
    /\ CanCall(t)
    /\ threads[t].index # 0
    /\ threads' = [threads EXCEPT ![t] =
           Returned([@ EXCEPT !.op = "get_all_entries",
                              !.it = objects[threads[t].index].entries,
                              !.seen = lists[objects[threads[t].index].entries]])]
    /\ UNCHANGED <<lists, objects, _search_index, Unshared>>

(***************************************************************************)
(* services/search_service.py: functions over the global index.            *)
(***************************************************************************)
\* [e for e in entries if e.type == type]
OfType(entries, type) == SelectSeq(entries, LAMBDA e : e.type = type)

\* a service function f(): index = get_search_index(), at its test
ServiceCall(t, f) ==
    /\ CanCall(t)
    /\ threads' = [threads EXCEPT ![t] =
           [@ EXCEPT !.op = f,
                     !.pc = AfterNoneTest]]
    /\ UNCHANGED <<lists, objects, _search_index, Unshared>>

\* the service function f returns value
ServiceReturn(t, f, value) ==
    /\ threads[t].pc = "got"
    /\ threads[t].op = f
    /\ threads' = [threads EXCEPT ![t] = Returned([@ EXCEPT !.result = value])]
    /\ UNCHANGED <<lists, objects, _search_index, Unshared>>

\* index.entries of the index the thread got
GotEntries(t) == lists[objects[threads[t].index].entries]

get_all_examples(t) == ServiceCall(t, "get_all_examples")

get_all_examples_return(t) ==
    ServiceReturn(t, "get_all_examples",
        LET es == OfType(GotEntries(t), "example")
        IN  [i \in 1..Len(es) |-> to_dict(es[i])])

get_all_docs(t) == ServiceCall(t, "get_all_docs")

get_all_docs_return(t) ==
    ServiceReturn(t, "get_all_docs",
        LET es == OfType(GotEntries(t), "doc")
        IN  [i \in 1..Len(es) |-> to_dict(es[i])])

get_index_stats(t) == ServiceCall(t, "get_index_stats")

get_index_stats_return(t) ==
    ServiceReturn(t, "get_index_stats",
        [total_entries  |-> Len(GotEntries(t)),
         examples_count |-> Len(OfType(GotEntries(t), "example")),
         docs_count     |-> Len(OfType(GotEntries(t), "doc"))])

Next ==
    \E t \in Threads :
        \/ get_search_index(t)
        \/ rebuild_search_index(t)
        \/ SearchIndex__init__(t)
        \/ rebuild(t)
        \/ _build_index_append(t)
        \/ _build_index_return(t)
        \/ assign_search_index(t)
        \/ return_search_index(t)
        \/ \E query \in SpecQueries, limit \in SpecLimits :
               search_call(t, query, limit)
        \/ search_loop(t)
        \/ search_return(t)
        \/ get_all_entries(t)

Spec == Init /\ [][Next]_vars

(***************************************************************************)
(* SpecSeq: one caller (thread 1) making its calls one after another, on   *)
(* any example and documentation source within the bounds.                 *)
(***************************************************************************)
\* the example records of SpecSeq: "ab" with a learn_more_url, "B" without
SeqExampleItems ==
    { [title |-> <<97, 98>>, description |-> <<65, 98>>, content |-> <<97>>,
       url |-> "/x/", category |-> "Search", learn_more_url |-> "/docs/x/"],
      [title |-> <<66>>, description |-> <<98>>, content |-> << >>,
       url |-> "/x/", category |-> "Search", learn_more_url |-> None] }

\* the documentation records of SpecSeq: "Ba", "ab"
SeqDocItems ==
    { [title |-> <<66, 97>>, description |-> <<65, 98>>, content |-> <<97>>,
       url |-> "/docs/", category |-> "Documentation"],
      [title |-> <<97, 98>>, description |-> <<65, 98>>, content |-> <<97>>,
       url |-> "/docs/", category |-> "Documentation"] }

InitSeq ==
    /\ AUTO_DISCOVERED_EXAMPLES \in SeqUpTo(SeqExampleItems, MaxEntries)
    /\ DOCS_DATA \in SeqUpTo(SeqDocItems,
                              MaxEntries - Len(AUTO_DISCOVERED_EXAMPLES))
    /\ lists = << >>
    /\ objects = << >>
    /\ _search_index = 0
    /\ threads = [t \in Threads |-> IdleThread]
    /\ call = NoCall
    /\ NoWeb

NextSeq ==
    \/ get_search_index(1)
    \/ rebuild_search_index(1)
    \/ SearchIndex__init__(1)
    \/ rebuild(1)
    \/ _build_index_append(1)
    \/ _build_index_return(1)
    \/ assign_search_index(1)
    \/ return_search_index(1)
    \/ \E query \in SpecQueries, limit \in SpecLimits :
           search_call(1, query, limit)
    \/ \E query \in SpecQueries, limit \in SpecLimits :
           module_search(1, query, limit)
    \/ module_search_index_search(1)
    \/ search_loop(1)
    \/ search_return(1)
    \/ get_all_entries(1)
    \/ get_all_examples(1)
    \/ get_all_examples_return(1)
    \/ get_all_docs(1)
    \/ get_all_docs_return(1)
    \/ get_index_stats(1)
    \/ get_index_stats_return(1)

SpecSeq == InitSeq /\ [][NextSeq]_vars

(***************************************************************************)
(* examples/decorators.py: datastar_response.  A view is a generator       *)
(* function or a plain function; its body is a list of statements: yield   *)
(* an event, add a message to the request (messages.success), raise.  A    *)
(* plain function holds no yield and returns None at its end.  The caller  *)
(* calls wrapper(request) and then consumes the response's stream.         *)
(***************************************************************************)
\* the search module at rest
NoSearch ==
    /\ AUTO_DISCOVERED_EXAMPLES = << >>
    /\ DOCS_DATA = << >>
    /\ lists = << >>
    /\ objects = << >>
    /\ _search_index = 0
    /\ threads = [t \in Threads |-> IdleThread]

search_module == <<AUTO_DISCOVERED_EXAMPLES, DOCS_DATA, lists, objects,
                   _search_index, threads>>

\* the statements of a view body
Statements ==
    { [op |-> "yield", arg |-> e] : e \in { "e1", "e2" } }
    \cup { [op |-> "message", arg |-> "m1"], [op |-> "raise", arg |-> "ValueError"] }

\* the views: generator functions, and plain functions (no yield)
Views ==
    { [kind |-> "generator", body |-> body] :
        body \in SeqUpTo(Statements, MaxSteps) }
    \cup { [kind |-> "function", body |-> body] :
             body \in SeqUpTo({ st \in Statements : st.op # "yield" }, MaxSteps) }

\* the position of the first raise of a body, or 0
FirstRaise(body) ==
    IF \E i \in 1..Len(body) : body[i].op = "raise"
    THEN CHOOSE i \in 1..Len(body) :
             /\ body[i].op = "raise"
             /\ \A j \in 1..(i - 1) : body[j].op # "raise"
    ELSE 0

\* the messages the statements of a body add, in order
RECURSIVE MessagesOf(_)
MessagesOf(body) ==
    IF body = << >> THEN << >>
    ELSE (IF Head(body).op = "message" THEN <<Head(body).arg>> ELSE << >>)
         \o MessagesOf(Tail(body))

InitDecorator ==
    /\ NoSearch
    /\ call = NoCall
    /\ messages \in { [queue |-> q, used |-> FALSE] : q \in SeqUpTo({ "m0" }, 1) }
    /\ default_storage = [exists |-> FALSE, files |-> << >>]
    /\ Todo = NoTodo
    /\ Notification = << >>
    /\ Item = << >>
    /\ requests = << >>

\* wrapper(request): generator = view_func(request) and return
\* DatastarResponse(stream()).  Calling a generator function runs nothing of
\* its body; calling a plain function runs its body, up to its first raise.
wrapper(view) ==
    /\ call.op = "none"
    /\ LET n    == FirstRaise(view.body)
           ran  == IF n = 0 THEN view.body ELSE SubSeq(view.body, 1, n - 1)
       IN  IF view.kind = "function"
           THEN /\ messages' = [messages EXCEPT !.queue = @ \o MessagesOf(ran)]
                /\ call' = [op |-> "wrapper", view |-> view,
                            pc |-> IF n = 0 THEN "response" ELSE "done",
                            ip |-> 0, events |-> << >>, storage |-> << >>,
                            idx |-> 0,
                            raised |-> IF n = 0 THEN "none" ELSE "wrapper"]
           ELSE /\ messages' = messages
                /\ call' = [op |-> "wrapper", view |-> view, pc |-> "response",
                            ip |-> 0, events |-> << >>, storage |-> << >>,
                            idx |-> 0, raised |-> "none"]
    /\ UNCHANGED <<search_module, default_storage, Todo, Notification, Item,
                   requests>>

\* stream(): yield from generator, one statement of the generator's body
stream_yield_from(st) ==
    /\ call.op = "wrapper"
    /\ call.pc = "response"
    /\ call.view.kind = "generator"
    /\ call.ip < Len(call.view.body)
    /\ st = call.view.body[call.ip + 1]
    /\ CASE st.op = "yield" ->
              /\ call' = [call EXCEPT !.ip = @ + 1,
                             !.events = Append(@, [from |-> "view", data |-> st.arg])]
              /\ messages' = messages
         [] st.op = "message" ->
              /\ call' = [call EXCEPT !.ip = @ + 1]
              /\ messages' = [messages EXCEPT !.queue = Append(@, st.arg)]
         [] st.op = "raise" ->
              /\ call' = [call EXCEPT !.pc = "done", !.raised = "stream"]
              /\ messages' = messages
    /\ UNCHANGED <<search_module, default_storage, Todo, Notification, Item,
                   requests>>

\* stream(): yield from generator where the view returned None: TypeError
stream_yield_from_None ==
    /\ call.op = "wrapper"
    /\ call.pc = "response"
    /\ call.view.kind = "function"
    /\ call' = [call EXCEPT !.pc = "done", !.raised = "stream"]
    /\ UNCHANGED <<search_module, web>>

\* stream() that gets the messages without waiting for the generator's end
stream_get_messages_Early ==
    /\ call.op = "wrapper"
    /\ call.pc = "response"
    /\ call.view.kind = "generator"
    /\ call' = [call EXCEPT !.pc = "alerts", !.storage = messages.queue,
                            !.idx = 0]
    /\ messages' = [messages EXCEPT !.used = TRUE]
    /\ UNCHANGED <<search_module, default_storage, Todo, Notification, Item,
                   requests>>

\* stream(): the generator is exhausted; storage = get_messages(request) and
\* the start of "for msg in storage", which marks the storage used
stream_get_messages ==
    /\ call.op = "wrapper"
    /\ call.pc = "response"
    /\ call.view.kind = "generator"
    /\ call.ip = Len(call.view.body)
    /\ call' = [call EXCEPT !.pc = "alerts", !.storage = messages.queue,
                            !.idx = 0]
    /\ messages' = [messages EXCEPT !.used = TRUE]
    /\ UNCHANGED <<search_module, default_storage, Todo, Notification, Item,
                   requests>>

\* stream(): yield SSE.patch_elements(alert of msg, ...) for the next message
stream_alert ==
    /\ call.op = "wrapper"
    /\ call.pc = "alerts"
    /\ call.idx < Len(call.storage)
    /\ call' = [call EXCEPT !.idx = @ + 1,
                   !.events = Append(@, [from |-> "alert",
                                         data |-> call.storage[call.idx + 1]])]
    /\ UNCHANGED <<search_module, web>>

\* stream() returns: the storage is exhausted
stream_return ==
    /\ call.op = "wrapper"
    /\ call.pc = "alerts"
    /\ call.idx = Len(call.storage)
    /\ call' = [call EXCEPT !.pc = "done"]
    /\ UNCHANGED <<search_module, web>>

NextDecorator ==
    \/ \E view \in Views : wrapper(view)
    \/ \E st \in Statements : stream_yield_from(st)
    \/ stream_yield_from_None
    \/ stream_get_messages
    \/ stream_alert
    \/ stream_return

SpecDecorator == InitDecorator /\ [][NextDecorator]_vars

(***************************************************************************)
(* examples/utils.py: cleanup_temp_files.  The temp directory holds files  *)
(* by name (code points, so that startswith('.') is computed); a file has  *)
(* a modification time in seconds and may be one whose get_modified_time   *)
(* or whose delete raises.                                                 *)
(***************************************************************************)
\* the default of max_age_hours
TEMP_FILE_MAX_AGE_HOURS == 1

\* the seconds of an hour in "max_age_hours * 3600"
SecondsPerHour == 3600

\* time.time() when cleanup_temp_files is called
Now == 7200

\* file names ".k", "a", "b"
FileNames == { <<46, 107>>, <<97>>, <<98>> }

\* a file: its modification time, around an hour before Now, and the storage
\* call that raises for it, if one does
FileAttrs ==
    [mtime : { 3599, 3600, 3601 }, raises : { "none", "get_modified_time", "delete" }]

\* the states of the temp directory: missing, or holding up to MaxFiles files
Directories ==
    { [exists |-> FALSE, files |-> << >>] }
    \cup { [exists |-> TRUE, files |-> files] :
             files \in UNION { [names -> FileAttrs] :
                                 names \in { ns \in SUBSET FileNames :
                                               Cardinality(ns) <= MaxFiles } } }

\* the orders in which listdir may give the names
Listings(names) ==
    { order \in [1..Cardinality(names) -> names] :
        \A i, j \in 1..Cardinality(names) : order[i] = order[j] => i = j }

\* a function without the argument x
Without(f, x) == [y \in (DOMAIN f) \ { x } |-> f[y]]

InitCleanup ==
    /\ NoSearch
    /\ call = NoCall
    /\ messages = [queue |-> << >>, used |-> FALSE]
    /\ default_storage \in Directories
    /\ Todo = NoTodo
    /\ Notification = << >>
    /\ Item = << >>
    /\ requests = << >>

\* cleanup_temp_files(max_age_hours) up to the loop: deleted_count = 0, the
\* cutoff, listdir (FileNotFoundError for a missing directory: return 0).
\* before keeps the directory as it was at the call.
cleanup_temp_files(max_age_hours) ==
    /\ call.op = "none"
    /\ \E files \in Listings(DOMAIN default_storage.files) :
           call' = [op            |-> "cleanup_temp_files",
                    pc            |-> IF default_storage.exists
                                      THEN "loop" ELSE "done",
                    max_age_hours |-> max_age_hours,
                    cutoff_time   |-> Now - (max_age_hours * SecondsPerHour),
                    files         |-> files,
                    i             |-> 0,
                    deleted_count |-> 0,
                    result        |-> IF default_storage.exists THEN None ELSE 0,
                    before        |-> default_storage]
    /\ UNCHANGED <<search_module, web>>

\* cleanup_file with "if file_age <= cutoff_time"
cleanup_file_NotStrict ==
    /\ call.op = "cleanup_temp_files"
    /\ call.pc = "loop"
    /\ call.i < Len(call.files)
    /\ LET file_name == call.files[call.i + 1]
           file      == default_storage.files[file_name]
       IN  IF /\ ~StartsWith(file_name, <<46>>)
              /\ file.raises # "get_modified_time"
              /\ file.mtime <= call.cutoff_time
              /\ file.raises # "delete"
           THEN /\ default_storage' =
                       [default_storage EXCEPT !.files = Without(@, file_name)]
                /\ call' = [call EXCEPT !.i = @ + 1, !.deleted_count = @ + 1]
           ELSE /\ default_storage' = default_storage
                /\ call' = [call EXCEPT !.i = @ + 1]
    /\ UNCHANGED <<search_module, messages, Todo, Notification, Item, requests>>

\* one turn of "for file_name in files"
cleanup_file ==
    /\ call.op = "cleanup_temp_files"
    /\ call.pc = "loop"
    /\ call.i < Len(call.files)
    /\ LET file_name == call.files[call.i + 1]
           file      == default_storage.files[file_name]
       IN  IF /\ ~StartsWith(file_name, <<46>>)
              /\ file.raises # "get_modified_time"
              /\ file.mtime < call.cutoff_time
              /\ file.raises # "delete"
           THEN /\ default_storage' =
                       [default_storage EXCEPT !.files = Without(@, file_name)]
                /\ call' = [call EXCEPT !.i = @ + 1, !.deleted_count = @ + 1]
           ELSE /\ default_storage' = default_storage
                /\ call' = [call EXCEPT !.i = @ + 1]
    /\ UNCHANGED <<search_module, messages, Todo, Notification, Item, requests>>

\* return deleted_count
cleanup_return ==
    /\ call.op = "cleanup_temp_files"
    /\ call.pc = "loop"
    /\ call.i = Len(call.files)
    /\ call' = [call EXCEPT !.pc = "done", !.result = call.deleted_count]
    /\ UNCHANGED <<search_module, web>>

NextCleanup ==
    \/ \E max_age_hours \in 0..(TEMP_FILE_MAX_AGE_HOURS + 1) :
           cleanup_temp_files(max_age_hours)
    \/ cleanup_file
    \/ cleanup_return

SpecCleanup == InitCleanup /\ [][NextCleanup]_vars

(***************************************************************************)
(* The TodoMVC views (views.py) on the Todo table.  A table is its rows by *)
(* primary key and the last key given out; created_at is the value of that *)
(* counter at the insert.  SpecTodo runs one request after the other: each *)
(* action is a whole view, and requests holds the last request alone, with *)
(* the table as the request found it (before).                             *)
(***************************************************************************)
\* signals.get(key) is not None
Has(signals, key) == key \in DOMAIN signals

\* get_object_or_404(Model, pk=signals.get(key)) finds a row
Found(rows, signals, key) ==
    Has(signals, key) /\ signals[key] \in DOMAIN rows

\* the rows of the keys in S
Restrict(rows, S) == [pk \in S |-> rows[pk]]

\* Model.save() of an instance with a primary key: every field is written,
\* by an UPDATE of the row or, if that finds no row, by an INSERT
save(rows, pk, instance) ==
    [k \in (DOMAIN rows) \cup { pk } |-> IF k = pk THEN instance ELSE rows[k]]

\* get_todo_counts()
get_todo_counts(rows) ==
    [completed |-> Cardinality({ pk \in DOMAIN rows : rows[pk].is_completed }),
     active |-> Cardinality({ pk \in DOMAIN rows : ~rows[pk].is_completed })]

\* Todo.Meta.ordering = ['-order', 'created_at']
TodoBefore(a, b) ==
    \/ a.order > b.order
    \/ a.order = b.order /\ a.created_at < b.created_at

\* Todo.objects.all(): the keys in the order of Meta.ordering
Todo_objects_all(rows) ==
    CHOOSE todos \in [1..Cardinality(DOMAIN rows) -> DOMAIN rows] :
        /\ \A i, j \in DOMAIN todos : todos[i] = todos[j] => i = j
        /\ \A i, j \in DOMAIN todos :
               i < j => TodoBefore(rows[todos[i]], rows[todos[j]])

\* the tables a run starts with: n rows with the keys 1..n
InitialTodos(most) ==
    { [rows |-> [pk \in 1..n |->
                    [title |-> <<97>>, is_completed |-> c[pk],
                     order |-> o[pk], created_at |-> pk]],
       seq |-> n] :
        n \in 0..most, c \in [1..most -> BOOLEAN], o \in [1..most -> 0..1] }

\* the signals of the toggle and delete requests
TodoSignals ==
    { << >> }
    \cup { [todoToggleId |-> k] : k \in 1..MaxTodos }
    \cup { [todoToggleId |-> k, filter |-> f] :
             k \in 1..MaxTodos, f \in { "all", "active" } }

InitTodo ==
    /\ NoSearch
    /\ call = NoCall
    /\ messages = [queue |-> << >>, used |-> FALSE]
    /\ default_storage = [exists |-> FALSE, files |-> << >>]
    /\ Todo \in InitialTodos(MaxTodos - 1)
    /\ Notification = << >>
    /\ Item = << >>
    /\ requests = << >>

NotTodo == <<search_module, call, messages, default_storage, Notification, Item>>

toggle_is_completed_MarksCompleted(todo) ==
    [todo EXCEPT !.is_completed = TRUE]

\* todo.is_completed = not todo.is_completed
toggle_is_completed(todo) == [todo EXCEPT !.is_completed = ~@]

\* todomvc_toggle_view
todomvc_toggle_view(signals) ==
    /\ IF ~Found(Todo.rows, signals, "todoToggleId")
       THEN /\ requests' = << [view |-> "todomvc_toggle_view",
                               signals |-> signals, before |-> Todo,
                               raised |-> "Http404", events |-> << >>] >>
            /\ UNCHANGED Todo
       ELSE LET todo_id == signals["todoToggleId"]
                todo == toggle_is_completed(Todo.rows[todo_id])
                rows == save(Todo.rows, todo_id, todo)
                mode == IF Has(signals, "filter") /\ signals["filter"] = "all"
                        THEN "replace" ELSE "remove"
                counts == get_todo_counts(rows)
            IN  /\ Todo' = [Todo EXCEPT !.rows = rows]
                /\ requests' =
                     << [view |-> "todomvc_toggle_view",
                         signals |-> signals, before |-> Todo,
                         raised |-> "none",
                         events |->
                           << [type |-> "patch_elements", todo |-> todo,
                               selector |-> todo_id, mode |-> mode],
                              [type |-> "patch_signals",
                               activeCount |-> counts.active,
                               completedCount |-> counts.completed] >>] >>
    /\ UNCHANGED NotTodo

\* todomvc_delete_view
todomvc_delete_view(signals) ==
    /\ IF ~Found(Todo.rows, signals, "todoToggleId")
       THEN /\ requests' = << [view |-> "todomvc_delete_view",
                               signals |-> signals, before |-> Todo,
                               raised |-> "Http404", events |-> << >>] >>
            /\ UNCHANGED Todo
       ELSE LET todo_id == signals["todoToggleId"]
                rows == Without(Todo.rows, todo_id)
                counts == get_todo_counts(rows)
            IN  /\ Todo' = [Todo EXCEPT !.rows = rows]
                /\ requests' =
                     << [view |-> "todomvc_delete_view",
                         signals |-> signals, before |-> Todo,
                         raised |-> "none",
                         events |->
                           << [type |-> "remove_elements",
                               selector |-> todo_id],
                              [type |-> "patch_signals",
                               activeCount |-> counts.active,
                               completedCount |-> counts.completed] >>] >>
    /\ UNCHANGED NotTodo

filter_is_completed_All(rows, value) == DOMAIN rows

\* Todo.objects.filter(is_completed=value): the keys of the rows it selects
filter_is_completed(rows, value) ==
    { pk \in DOMAIN rows : rows[pk].is_completed = value }

\* todomvc_clear_view
todomvc_clear_view ==
    LET rows == Restrict(Todo.rows,
                         (DOMAIN Todo.rows)
                           \ filter_is_completed(Todo.rows, TRUE))
        todos == Todo_objects_all(rows)
    IN  /\ Todo' = [Todo EXCEPT !.rows = rows]
        /\ requests' =
             << [view |-> "todomvc_clear_view", before |-> Todo,
                 raised |-> "none",
                 events |->
                   << [type |-> "patch_elements", todos |-> todos,
                       selector |-> "todo-list"],
                      [type |-> "patch_signals", filter |-> "all"] >>] >>
        /\ UNCHANGED NotTodo

NextTodo ==
    \/ \E signals \in TodoSignals : todomvc_toggle_view(signals)
    \/ \E signals \in TodoSignals : todomvc_delete_view(signals)
    \/ todomvc_clear_view

SpecTodo == InitTodo /\ [][NextTodo]_vars

(***************************************************************************)
(* todomvc_add_view under SpecAdd: MaxRequests requests are served at the   *)
(* same time, each by its own worker.  A request runs the view one database *)
(* statement at a time, and the statements of different requests interleave *)
(* freely: the view takes no lock and opens no transaction.                 *)
(***************************************************************************)
Requests == 1..MaxRequests

\* str.strip(): the text without its leading and trailing whitespace
Whitespace == { 9, 10, 11, 12, 13, 28, 29, 30, 31, 32 }

RECURSIVE lstrip(_)
lstrip(s) ==
    IF s # << >> /\ Head(s) \in Whitespace THEN lstrip(Tail(s)) ELSE s

RECURSIVE rstrip(_)
rstrip(s) ==
    IF s # << >> /\ s[Len(s)] \in Whitespace
    THEN rstrip(SubSeq(s, 1, Len(s) - 1))
    ELSE s

strip(s) == rstrip(lstrip(s))

\* request.POST.get('title', ''): no title, blanks, a title between blanks
PostTitles == { << >>, <<32>>, <<32, 9>>, <<32, 98, 32>>, <<97>> }

\* no request yet
NoRequest == [view |-> "none", pc |-> "done"]

InitAdd ==
    /\ NoSearch
    /\ call = NoCall
    /\ messages = [queue |-> << >>, used |-> FALSE]
    /\ default_storage = [exists |-> FALSE, files |-> << >>]
    /\ Todo \in InitialTodos(MaxTodos - MaxRequests)
    /\ Notification = << >>
    /\ Item = << >>
    /\ requests = [r \in Requests |-> NoRequest]

\* the requests that have read max_order and not yet created their todo
Creating == { r \in Requests : requests[r].pc = "create" }

\* Todo.objects.order_by('-order').first() of a table with rows: a row of
\* the highest order (rows of equal order have the same order to give)
order_by_minus_order_first(rows) ==
    CHOOSE pk \in DOMAIN rows :
        \A k \in DOMAIN rows : rows[pk].order >= rows[k].order

\* todomvc_add_view up to the read of max_order: the title is stripped; a
\* blank one ends the view with no event, any other one reads the row of
\* the highest order and computes new_order
todomvc_add_view(r, POST_title) ==
    /\ requests[r].pc = "done"
    /\ LET title == strip(POST_title) IN
       IF title = << >>
       THEN requests' = [requests EXCEPT ![r] =
                [view |-> "todomvc_add_view", POST_title |-> POST_title,
                 pc |-> "done", events |-> << >>]]
       ELSE /\ Todo.seq + Cardinality(Creating) < MaxTodos
            /\ requests' = [requests EXCEPT ![r] =
                 [view |-> "todomvc_add_view", POST_title |-> POST_title,
                  pc |-> "create", title |-> title,
                  new_order |->
                    IF Todo.rows # << >>
                    THEN Todo.rows[order_by_minus_order_first(Todo.rows)].order
                           + 1
                    ELSE 0,
                  events |-> << >>]]
    /\ UNCHANGED <<Todo, NotTodo>>

\* Todo.objects.create(title=title, order=new_order), and the first event
add_create(r) ==
    /\ requests[r].pc = "create"
    /\ LET pk == Todo.seq + 1
           todo == [title |-> requests[r].title, is_completed |-> FALSE,
                    order |-> requests[r].new_order, created_at |-> pk]
       IN  /\ Todo' = [rows |-> save(Todo.rows, pk, todo), seq |-> pk]
           /\ requests' = [requests EXCEPT ![r] =
                [view |-> "todomvc_add_view",
                 POST_title |-> requests[r].POST_title,
                 pc |-> "counts", title |-> requests[r].title,
                 new_order |-> requests[r].new_order, todo |-> pk,
                 events |-> << [type |-> "patch_elements", todo |-> todo,
                                selector |-> "todo-list",
                                mode |-> "prepend"] >>]]
    /\ UNCHANGED NotTodo

\* get_todo_counts() and the second event; the view ends
add_counts(r) ==
    /\ requests[r].pc = "counts"
    /\ requests' = [requests EXCEPT ![r] =
         [@ EXCEPT !.pc = "done",
                   !.events = Append(@, [type |-> "patch_signals",
                                         activeCount |->
                                           get_todo_counts(Todo.rows).active])]]
    /\ UNCHANGED <<Todo, NotTodo>>

NextAdd ==
    \/ \E r \in Requests, POST_title \in PostTitles :
           todomvc_add_view(r, POST_title)
    \/ \E r \in Requests : add_create(r)
    \/ \E r \in Requests : add_counts(r)

SpecAdd == InitAdd /\ [][NextAdd]_vars

(***************************************************************************)
(* notifications_mark_read_view (views.py) on the Notification table, one  *)
(* request after the other (SpecNotifications).  The table is its rows by  *)
(* primary key; requests holds the last request.                           *)
(***************************************************************************)
\* the tables a run starts with
InitialNotifications ==
    UNION { { [pk \in S |-> [message |-> <<110>>, read |-> read[pk],
                             created_at |-> pk]] :
                read \in [1..MaxRows -> BOOLEAN] } :
            S \in SUBSET (1..MaxRows) }

\* the signals of the request: none, a falsy id, the id of a row or of none
NotificationSignals ==
    { << >> } \cup { [notificationId |-> k] : k \in 0..(MaxRows + 1) }

InitNotifications ==
    /\ NoSearch
    /\ call = NoCall
    /\ messages = [queue |-> << >>, used |-> FALSE]
    /\ default_storage = [exists |-> FALSE, files |-> << >>]
    /\ Todo = NoTodo
    /\ Notification \in InitialNotifications
    /\ Item = << >>
    /\ requests = << >>

filter_read_All(rows, value) == DOMAIN rows

\* Notification.objects.filter(read=value): the keys of the rows it selects
filter_read(rows, value) == { pk \in DOMAIN rows : rows[pk].read = value }

\* Notification.Meta.ordering = ['created_at']
NotificationBefore(a, b) == a.created_at < b.created_at

\* the keys S of the table in the order of Meta.ordering
Notification_objects(rows, S) ==
    CHOOSE notifications \in [1..Cardinality(S) -> S] :
        /\ \A i, j \in DOMAIN notifications :
               notifications[i] = notifications[j] => i = j
        /\ \A i, j \in DOMAIN notifications :
               i < j => NotificationBefore(rows[notifications[i]],
                                           rows[notifications[j]])

\* `if notification_id:` of signals.get('notificationId')
notification_id_Truthy(signals) ==
    Has(signals, "notificationId") /\ signals["notificationId"] # 0

\* notifications_mark_read_view
notifications_mark_read_view(signals) ==
    /\ IF notification_id_Truthy(signals)
       THEN IF ~Found(Notification, signals, "notificationId")
            THEN /\ requests' = << [view |-> "notifications_mark_read_view",
                                    signals |-> signals,
                                    before |-> Notification,
                                    raised |-> "Http404",
                                    events |-> << >>] >>
                 /\ UNCHANGED Notification
            ELSE LET notification_id == signals["notificationId"]
                     notification ==
                         [Notification[notification_id] EXCEPT !.read = TRUE]
                     rows == save(Notification, notification_id, notification)
                 IN  /\ Notification' = rows
                     /\ requests' =
                          << [view |-> "notifications_mark_read_view",
                              signals |-> signals, before |-> Notification,
                              raised |-> "none",
                              events |->
                                << [type |-> "patch_signals",
                                    notificationCount |->
                                      Cardinality(filter_read(rows, FALSE))]
                                >>] >>
       ELSE LET rows == [pk \in DOMAIN Notification |->
                           IF pk \in filter_read(Notification, FALSE)
                           THEN [Notification[pk] EXCEPT !.read = TRUE]
                           ELSE Notification[pk]]
            IN  /\ Notification' = rows
                /\ requests' =
                     << [view |-> "notifications_mark_read_view",
                         signals |-> signals, before |-> Notification,
                         raised |-> "none",
                         events |->
                           << [type |-> "patch_signals",
                               notificationCount |->
                                 Cardinality(filter_read(rows, FALSE))],
                              [type |-> "patch_elements",
                               notifications |->
                                 Notification_objects(
                                     rows, filter_read(rows, FALSE)),
                               selector |-> "notifications-list"] >>] >>
    /\ UNCHANGED <<search_module, call, messages, default_storage, Todo, Item>>

NextNotifications ==
    \E signals \in NotificationSignals : notifications_mark_read_view(signals)

SpecNotifications == InitNotifications /\ [][NextNotifications]_vars

(***************************************************************************)
(* sortable_view (views.py) on the Item table, one request after the other *)
(* (SpecSortable).  The table is its rows by primary key; requests holds   *)
(* the last request.                                                       *)
(***************************************************************************)
\* the tables a run starts with
InitialItems ==
    UNION { { [pk \in S |-> [name |-> <<105>>, order |-> order[pk]]] :
                order \in [1..MaxItems -> 0..2] } :
            S \in SUBSET (1..MaxItems) }

\* the signals of the request: no 'order', or a list of keys, which may
\* repeat a key or hold one that is no item's
SortableSignals ==
    { << >> }
    \cup { [order |-> current_order] :
             current_order \in SeqUpTo(1..(MaxItems + 1), MaxItems) }

InitSortable ==
    /\ NoSearch
    /\ call = NoCall
    /\ messages = [queue |-> << >>, used |-> FALSE]
    /\ default_storage = [exists |-> FALSE, files |-> << >>]
    /\ Todo = NoTodo
    /\ Notification = << >>
    /\ Item \in InitialItems
    /\ requests = << >>

\* Item.Meta.ordering = ['order']
ItemBefore(a, b) == a.order < b.order

\* the orders in which Item.objects.all() may give the keys: rows of equal
\* order come in any order
Item_objects_all(rows) ==
    { items \in [1..Cardinality(DOMAIN rows) -> DOMAIN rows] :
        /\ \A i, j \in DOMAIN items : items[i] = items[j] => i = j
        /\ \A i, j \in DOMAIN items :
               i < j => ~ItemBefore(rows[items[j]], rows[items[i]]) }

new_ordered_todos_FromZero(rows, current_order) ==
    [index \in 1..Len(current_order) |->
        [pk |-> current_order[index],
         instance |-> [rows[current_order[index]] EXCEPT !.order = index - 1]]]

\* the loop over enumerate(current_order, start=1), every key being that of
\* a row: the instances fetched, each with its order set to its index
new_ordered_todos(rows, current_order) ==
    [index \in 1..Len(current_order) |->
        [pk |-> current_order[index],
         instance |-> [rows[current_order[index]] EXCEPT !.order = index]]]

\* Item.objects.bulk_update(objs, fields=['order']): one UPDATE whose CASE
\* gives a row the order of the first instance of its key
bulk_update(rows, objs) ==
    [pk \in DOMAIN rows |->
        IF \E i \in DOMAIN objs : objs[i].pk = pk
        THEN LET first == CHOOSE i \in DOMAIN objs :
                             /\ objs[i].pk = pk
                             /\ \A j \in 1..(i - 1) : objs[j].pk # pk
             IN  [rows[pk] EXCEPT !.order = objs[first].instance.order]
        ELSE rows[pk]]

\* sortable_view: Datastar_Request is whether the request has the header
sortable_view(Datastar_Request, signals) ==
    /\ IF ~Datastar_Request
       THEN /\ \E items \in Item_objects_all(Item) :
                 requests' = << [view |-> "sortable_view",
                                 Datastar_Request |-> FALSE,
                                 signals |-> signals, raised |-> "none",
                                 result |-> [template |-> "sortable.html",
                                             items |-> items]] >>
            /\ UNCHANGED Item
       ELSE IF ~Has(signals, "order")
       THEN /\ requests' = << [view |-> "sortable_view",
                               Datastar_Request |-> TRUE,
                               signals |-> signals, raised |-> "TypeError",
                               result |-> None] >>
            /\ UNCHANGED Item
       ELSE IF \E i \in DOMAIN signals["order"] :
                  signals["order"][i] \notin DOMAIN Item
       THEN /\ requests' = << [view |-> "sortable_view",
                               Datastar_Request |-> TRUE,
                               signals |-> signals,
                               raised |-> "Item.DoesNotExist",
                               result |-> None] >>
            /\ UNCHANGED Item
       ELSE /\ Item' = bulk_update(Item,
                                   new_ordered_todos(Item, signals["order"]))
            /\ requests' = << [view |-> "sortable_view",
                               Datastar_Request |-> TRUE,
                               signals |-> signals, raised |-> "none",
                               result |-> None] >>
    /\ UNCHANGED <<search_module, call, messages, default_storage, Todo,
                   Notification>>

NextSortable ==
    \/ sortable_view(FALSE, << >>)
    \/ \E signals \in SortableSignals : sortable_view(TRUE, signals)

SpecSortable == InitSortable /\ [][NextSortable]_vars

(***************************************************************************)
(* Properties of the index under concurrent calls, checked under Spec.     *)
(***************************************************************************)
\* the thread's last call has returned and was a read of the index
ReadReturned(t) ==
    /\ threads[t].pc = "idle"
    /\ \/ threads[t].op = "get_all_entries"
       \/ threads[t].op = "search" /\ threads[t].query # << >>

\* C1: rebuild() is atomic for concurrent readers: a search() or
\* get_all_entries() on the same index observes the complete old or the
\* complete new entry sequence (the source is unchanged, so both are the
\* sequence _build_index makes), never an empty or partly filled one.
C1_RebuildAtomicForReaders ==
    \A t \in Threads : ReadReturned(t) => threads[t].seen = _build_index(<< >>)

\* the entries of the SearchIndex object o
EntriesOf(o) == lists[objects[o].entries]

\* C17: rebuild_search_index() installs the new index by one replacement of
\* the global after the index is fully built.  A step of a thread in
\* rebuild_search_index() changes no index that existed when the call began
\* (a holder of the previous instance keeps its entry sequence as it was);
\* while the new index is being built neither the global nor another thread
\* refers to it; and the step that changes the global stores an index holding
\* the complete build.
C17_SingleReplacementOfCompleteIndex ==
    [][\A t \in Threads :
          (threads'[t] # threads[t] /\ threads'[t].op = "rebuild_search_index") =>
              /\ \A o \in 1..Len(objects) :
                     \/ threads[t].pc = "build" /\ o = threads[t].self
                     \/ /\ objects'[o] = objects[o]
                        /\ lists'[objects[o].entries] = EntriesOf(o)
              /\ threads[t].pc = "build" =>
                     /\ _search_index # threads[t].self
                     /\ \A u \in Threads \ {t} :
                            threads[u].index # threads[t].self
              /\ _search_index' # _search_index =>
                     /\ threads[t].pc = "assign"
                     /\ _search_index' = threads[t].self
                     /\ lists'[objects'[_search_index'].entries]
                            = _build_index(<< >>)]_vars

\* a rebuild_search_index() has replaced the global while another thread holds
\* the previous index, whose entries are still the complete build
C17_Witness ==
    \E t, u \in Threads :
        /\ threads[t].op = "rebuild_search_index"
        /\ threads[t].pc \in { "return", "idle" }
        /\ _search_index = threads[t].self
        /\ threads[u].index # 0
        /\ threads[u].index # _search_index
        /\ EntriesOf(threads[u].index) = _build_index(<< >>)
        /\ EntriesOf(_search_index) = _build_index(<< >>)
        /\ SourceLen >= 2

\* C24 as stated: when the threads' first calls are get_search_index() and no
\* other call has been made, one SearchIndex at most is constructed and the
\* threads that have returned were all given the same instance.
C24_OneInstanceForConcurrentCallers ==
    (\A t \in Threads :
         /\ threads[t].op \in { "none", "get_search_index" }
         /\ threads[t].calls + (IF threads[t].pc = "idle" THEN 0 ELSE 1) <= 1) =>
        /\ Len(objects) <= 1
        /\ \A t, u \in Threads :
               (/\ threads[t].pc = "idle" /\ threads[t].op = "get_search_index"
                /\ threads[u].pc = "idle" /\ threads[u].op = "get_search_index") =>
                   threads[t].index = threads[u].index

\* C19 as stated: a SearchIndex whose construction or rebuild has just run to
\* its end holds at least one entry of type "doc".
C19_FreshIndexHasDocs ==
    \A t \in Threads :
        (/\ threads[t].pc \in { "assign", "idle" }
         /\ threads[t].op \in { "get_search_index", "rebuild_search_index",
                                "rebuild" }
         /\ threads[t].self # 0
         /\ EntriesOf(threads[t].self) = _build_index(<< >>)) =>
            \E i \in 1..Len(EntriesOf(threads[t].self)) :
                EntriesOf(threads[t].self)[i].type = "doc"

\* C20: search() and get_all_entries() never modify the index: every step of
\* a thread inside index.search(query, limit) or index.get_all_entries(), the
\* step that returns included, leaves every list, every SearchIndex object and
\* the global as they were; the steps that change them belong to a
\* construction or a rebuild.
C20_ReadsLeaveIndexUnchanged ==
    [][\A t \in Threads :
          (threads'[t] # threads[t]
           /\ threads'[t].op \in { "search", "get_all_entries" }) =>
              /\ lists' = lists
              /\ objects' = objects
              /\ _search_index' = _search_index]_vars

\* a search that found something and a get_all_entries have returned to two
\* threads holding the same index, which holds the complete build
C20_Witness ==
    \E t, u \in Threads :
        /\ threads[t].pc = "idle" /\ threads[t].op = "search"
        /\ Len(threads[t].result) >= 1
        /\ threads[u].pc = "idle" /\ threads[u].op = "get_all_entries"
        /\ threads[u].index = threads[t].index
        /\ EntriesOf(threads[t].index) = _build_index(<< >>)
        /\ threads[u].seen = _build_index(<< >>)
        /\ SourceLen >= 2

(***************************************************************************)
(* Properties of search, checked under SpecSearch.                         *)
(***************************************************************************)
\* the entries of the index the sequential caller searches
IndexEntries == lists[objects[1].entries]

\* the caller's search has returned
Searched == call.op = "search"

\* query is contained in the text s, whatever the case of either
IContains(query, s) == Contains(Lower(query), Lower(s))

TitleMatch(e, query) == IContains(query, e.title)
DescriptionMatch(e, query) == IContains(query, e.description)
ContentMatch(e, query) == IContains(query, e.content)

AnyMatch(e, query) ==
    TitleMatch(e, query) \/ DescriptionMatch(e, query) \/ ContentMatch(e, query)

\* the positions of the index whose entry search scores above 0; search scores
\* no entry when the query is empty
MatchingPositions(query) ==
    IF query = << >> THEN {}
    ELSE { i \in 1..Len(IndexEntries) :
             ScoreEntry(IndexEntries[i], query).score > 0 }

MatchCount(query) == Cardinality(MatchingPositions(query))

\* the entries the returned list was made from
RankedEntries == { call.ranked[j][3] : j \in 1..Len(call.ranked) }

Min(a, b) == IF a < b THEN a ELSE b

\* C2: search with the empty query returns the empty list, whatever the index
\* holds and whatever the limit.
C2_EmptyQueryReturnsEmpty ==
    (Searched /\ call.query = << >>) => call.result = << >>

C2_Witness ==
    /\ Searched
    /\ call.query = << >>
    /\ Len(IndexEntries) = MaxEntries
    /\ call.limit > 0
    /\ call.result = << >>

\* C3: search with a non-empty query and a limit <= 0 returns the empty list.
C3_NonPositiveLimitReturnsEmpty ==
    (Searched /\ call.query # << >> /\ call.limit <= 0) => call.result = << >>

\* C4 as stated: for every query and limit N, search returns at most N results
\* and exactly min(N, number of entries with score > 0); with N above the
\* number of matches every match is returned.
C4_Original ==
    Searched =>
        /\ Len(call.result) <= call.limit
        /\ Len(call.result) = Min(call.limit, MatchCount(call.query))
        /\ call.limit > MatchCount(call.query) =>
               \A i \in MatchingPositions(call.query) :
                   IndexEntries[i] \in RankedEntries

\* C4 amended: for every query and every limit N >= 0, search returns at most N
\* results and exactly min(N, number of entries with score > 0); with N above
\* the number of matches every match is returned.
C4_LimitedResults ==
    (Searched /\ call.limit >= 0) =>
        /\ Len(call.result) <= call.limit
        /\ Len(call.result) = Min(call.limit, MatchCount(call.query))
        /\ call.limit > MatchCount(call.query) =>
               \A i \in MatchingPositions(call.query) :
                   IndexEntries[i] \in RankedEntries

C4_Witness ==
    /\ Searched
    /\ call.query # << >>
    /\ call.limit = 1
    /\ MatchCount(call.query) = 2
    /\ Len(call.result) = 1

\* C5: with a non-empty query, every entry in the results matches the query in
\* its title, description or content (case-insensitively), an entry matching in
\* no field is not in the results, and every matching entry is in the results
\* when the limit is not below the number of matching entries.
C5_OnlyMatchesAppear ==
    (Searched /\ call.query # << >>) =>
        /\ \A e \in RankedEntries : AnyMatch(e, call.query)
        /\ \A j \in 1..Len(call.result) :
               \E i \in 1..Len(IndexEntries) :
                   /\ AnyMatch(IndexEntries[i], call.query)
                   /\ call.result[j] = to_dict(IndexEntries[i])
        /\ Len(call.result) = Len(call.ranked)
        /\ call.limit >= Cardinality({ i \in 1..Len(IndexEntries) :
                                          AnyMatch(IndexEntries[i], call.query) }) =>
               \A i \in 1..Len(IndexEntries) :
                   AnyMatch(IndexEntries[i], call.query) =>
                       IndexEntries[i] \in RankedEntries

C5_Witness ==
    /\ Searched
    /\ call.query # << >>
    /\ Len(IndexEntries) = 2
    /\ AnyMatch(IndexEntries[1], call.query)
    /\ ~AnyMatch(IndexEntries[2], call.query)
    /\ call.limit = 2
    /\ Len(call.result) = 1
    /\ RankedEntries = { IndexEntries[1] }

\* C6: in the results of one search, an entry whose title matches comes before
\* every entry that matches in the description but not in the title, and an
\* entry whose description matches comes before every entry that matches in
\* the content only.
C6_TitleThenDescriptionThenContent ==
    (Searched /\ call.query # << >>) =>
        \A i, j \in 1..Len(call.ranked) :
            LET a == call.ranked[i][3]
                b == call.ranked[j][3]
            IN  /\ ( /\ TitleMatch(a, call.query)
                     /\ ~TitleMatch(b, call.query)
                     /\ DescriptionMatch(b, call.query) ) => i < j
                /\ ( /\ DescriptionMatch(a, call.query)
                     /\ ~TitleMatch(b, call.query)
                     /\ ~DescriptionMatch(b, call.query)
                     /\ ContentMatch(b, call.query) ) => i < j

C6_Witness ==
    /\ Searched
    /\ Len(IndexEntries) = 2
    /\ Len(call.ranked) = 2
    /\ ~TitleMatch(IndexEntries[1], call.query)
    /\ DescriptionMatch(IndexEntries[1], call.query)
    /\ TitleMatch(IndexEntries[2], call.query)
    /\ call.ranked[1][3] = IndexEntries[2]
    /\ call.ranked[2][3] = IndexEntries[1]

\* C7: the results are ordered by score descending, then match tier ascending,
\* then title ascending: of two adjacent results the first has the higher
\* score, or the same score and the lower tier, or the same score and tier and
\* a title that is not greater.
C7_OrderedByKey ==
    Searched =>
        \A i \in 1..(Len(call.ranked) - 1) :
            LET a == call.ranked[i]
                b == call.ranked[i + 1]
            IN  \/ a[1] > b[1]
                \/ a[1] = b[1] /\ a[2] < b[2]
                \/ a[1] = b[1] /\ a[2] = b[2] /\ ~StrLess(b[3].title, a[3].title)

C7_Witness ==
    /\ Searched
    /\ Len(IndexEntries) = 2
    /\ Len(call.ranked) = 2
    /\ call.ranked[1][1] = call.ranked[2][1]
    /\ call.ranked[1][2] = call.ranked[2][2]
    /\ StrLess(IndexEntries[2].title, IndexEntries[1].title)
    /\ call.ranked[1][3] = IndexEntries[2]
    /\ call.ranked[2][3] = IndexEntries[1]

\* the score of C8: 100 for a title match, 20 more when the title starts with
\* the query, 50 for a description match, 25 for a content match
ExpectedScore(e, query) ==
    (IF TitleMatch(e, query) THEN 100 ELSE 0)
    + (IF TitleMatch(e, query) /\ StartsWith(Lower(e.title), Lower(query))
       THEN 20 ELSE 0)
    + (IF DescriptionMatch(e, query) THEN 50 ELSE 0)
    + (IF ContentMatch(e, query) THEN 25 ELSE 0)

\* the tier of C8
ExpectedTier(e, query) ==
    IF TitleMatch(e, query) THEN 3
    ELSE IF DescriptionMatch(e, query) THEN 2
    ELSE IF ContentMatch(e, query) THEN 1
    ELSE 0

\* C8: for every entry and non-empty query the score search computes is 100 if
\* the title contains the query, plus 20 if the title starts with it, plus 50
\* if the description contains it, plus 25 if the content contains it, and the
\* tier is 3, 2, 1 for the first of title, description, content that matches
\* and 0 if none does.
C8_ScoreAndTier ==
    (Searched /\ call.query # << >>) =>
        /\ \A i \in 1..Len(IndexEntries) :
               LET e == IndexEntries[i]
                   r == ScoreEntry(e, call.query)
               IN  /\ r.score = ExpectedScore(e, call.query)
                   /\ r.match_type = ExpectedTier(e, call.query)
        /\ \A j \in 1..Len(call.ranked) :
               LET x == call.ranked[j]
               IN  /\ x[1] = ExpectedScore(x[3], call.query)
                   /\ x[2] = ExpectedTier(x[3], call.query)

C8_Witness ==
    /\ Searched
    /\ Len(call.ranked) = 2
    /\ call.ranked[1][1] = 195
    /\ call.ranked[1][2] = 3
    /\ call.ranked[2][1] = 75
    /\ call.ranked[2][2] = 2

\* the keys every result has
PublicKeys == {"title", "description", "url", "type", "category"}

\* C9: every result is an index entry reduced to title, description, url, type
\* and category, with learn_more_url exactly when the entry has a non-empty
\* one; content is no key of a result.
C9_ResultIsProjection ==
    Searched =>
        /\ Len(call.result) = Len(call.ranked)
        /\ \A j \in 1..Len(call.result) :
               LET r == call.result[j]
                   e == call.ranked[j][3]
                   has == e.learn_more_url # None /\ e.learn_more_url # ""
               IN  /\ \E i \in 1..Len(IndexEntries) : e = IndexEntries[i]
                   /\ DOMAIN r = PublicKeys
                                 \cup (IF has THEN {"learn_more_url"} ELSE {})
                   /\ r["title"] = e.title
                   /\ r["description"] = e.description
                   /\ r["url"] = e.url
                   /\ r["type"] = e.type
                   /\ r["category"] = e.category
                   /\ has => r["learn_more_url"] = e.learn_more_url
                   /\ "content" \notin DOMAIN r

C9_Witness ==
    /\ Searched
    /\ Len(call.result) = 2
    /\ call.ranked[1][3].learn_more_url = ""
    /\ call.ranked[2][3].learn_more_url = "/docs/x/"
    /\ call.ranked[2][3].content # << >>
    /\ "learn_more_url" \notin DOMAIN call.result[1]
    /\ "learn_more_url" \in DOMAIN call.result[2]

\* two queries that differ in the case of letters only
SameUpToCase(q1, q2) ==
    /\ Len(q1) = Len(q2)
    /\ \A i \in 1..Len(q1) :
           \/ q1[i] = q2[i]
           \/ q1[i] >= 65 /\ q1[i] <= 90 /\ q2[i] = q1[i] + 32
           \/ q2[i] >= 65 /\ q2[i] <= 90 /\ q1[i] = q2[i] + 32

\* C10: two queries that differ only in letter case give the same results in
\* the same order, for the same index and limit.
C10_CaseInsensitiveQuery ==
    Searched =>
        \A q2 \in Queries :
            SameUpToCase(call.query, q2) =>
                search(IndexEntries, q2, call.limit) = call.result

C10_Witness ==
    /\ Searched
    /\ call.query = <<97, 66>>
    /\ Len(call.result) = 2
    /\ search(IndexEntries, <<97, 98>>, call.limit) = call.result

\* what of an entry matched the query: title, start of title, description,
\* content
Matched(e, query) ==
    <<TitleMatch(e, query),
      TitleMatch(e, query) /\ StartsWith(Lower(e.title), Lower(query)),
      DescriptionMatch(e, query),
      ContentMatch(e, query)>>

\* C23: in search, equal score implies equal tier: two entries that search
\* gives the same score matched in the same of title, start of title,
\* description and content, and so have the same tier; two adjacent results of
\* equal score are therefore in title order.
C23_ScoreDeterminesTier ==
    (Searched /\ call.query # << >>) =>
        /\ \A i, j \in 1..Len(IndexEntries) :
               LET a == ScoreEntry(IndexEntries[i], call.query)
                   b == ScoreEntry(IndexEntries[j], call.query)
               IN  a.score = b.score =>
                       /\ a.match_type = b.match_type
                       /\ Matched(IndexEntries[i], call.query)
                              = Matched(IndexEntries[j], call.query)
        /\ \A j \in 1..(Len(call.ranked) - 1) :
               LET a == call.ranked[j]
                   b == call.ranked[j + 1]
               IN  a[1] = b[1] =>
                       /\ a[2] = b[2]
                       /\ ~StrLess(b[3].title, a[3].title)

\* two results of equal score and different titles were returned, the entry
\* that comes later in the index first
C23_Witness ==
    /\ Searched
    /\ Len(call.ranked) = 2
    /\ call.ranked[1][1] = call.ranked[2][1]
    /\ call.ranked[1][3].title # call.ranked[2][3].title
    /\ call.ranked[1][3] = IndexEntries[2]

(***************************************************************************)
(* Properties of sequential runs of one caller, checked under SpecSeq.     *)
(***************************************************************************)
\* the caller of SpecSeq is in no call
Idle == threads[1].pc = "idle"

\* the entries of the index the caller holds
HeldEntries == lists[objects[threads[1].index].entries]

\* C11: rebuild() is a full replacement and idempotent: with the source
\* unchanged, whenever a rebuild() of the held index has returned, after any
\* number of calls before it, the index holds exactly the entries of the initial
\* build, in the same order and number, with nothing duplicated or accumulated.
C11_RebuildIsFullReplacement ==
    (Idle /\ threads[1].op = "rebuild") => HeldEntries = _build_index(<< >>)

\* a rebuild() has returned after at least two earlier calls, on a source of
\* two items or more
C11_Witness ==
    /\ Idle
    /\ threads[1].op = "rebuild"
    /\ threads[1].calls >= 3
    /\ Len(HeldEntries) >= 2

\* C16: the global index is constructed lazily and reused.  No index exists
\* before the caller's first call; while the global holds an index, no step of
\* a call other than rebuild_search_index() constructs an index or changes the
\* global; and get_search_index(), alone or inside the module's search(),
\* hands its caller the index the global holds.
C16_LazyThenSameInstance ==
    [][/\ (Idle /\ threads[1].calls = 0) =>
              (objects = << >> /\ _search_index = 0)
       /\ (_search_index # 0 /\ threads'[1].op # "rebuild_search_index") =>
              (_search_index' = _search_index /\ Len(objects') = Len(objects))
       /\ (threads[1].pc = "return" /\ threads'[1].pc # "return") =>
              (threads'[1].index = _search_index /\ _search_index # 0)]_vars

\* the caller's third call or a later one, a get_search_index() or a search()
\* of the module, has returned the only index ever constructed
C16_Witness ==
    /\ Idle
    /\ threads[1].calls >= 3
    /\ threads[1].op \in { "get_search_index", "module_search" }
    /\ Len(objects) = 1
    /\ threads[1].index = 1
    /\ _search_index = 1

\* the positions of the held index whose entry has the type
PositionsOfType(type) ==
    { i \in 1..Len(HeldEntries) : HeldEntries[i].type = type }

\* result holds the dictionaries of the entries of the type, each once
ResultIsEntriesOfType(result, type) ==
    /\ Len(result) = Cardinality(PositionsOfType(type))
    /\ \A i \in PositionsOfType(type) :
           \E j \in 1..Len(result) : result[j] = to_dict(HeldEntries[i])
    /\ \A j \in 1..Len(result) : result[j].type = type

\* C18: every entry of every index has type "example" or "doc";
\* get_index_stats() reports the number of entries, of "example" entries and
\* of "doc" entries of the index, and the first is the sum of the other two;
\* get_all_examples() returns the "example" entries and get_all_docs() the
\* "doc" entries, so each entry is returned by exactly one of them.
C18_TypesPartitionTheIndex ==
    /\ \A o \in 1..Len(objects) : \A i \in 1..Len(EntriesOf(o)) :
           EntriesOf(o)[i].type \in { "example", "doc" }
    /\ (Idle /\ threads[1].op = "get_index_stats") =>
           /\ threads[1].result.total_entries = Len(HeldEntries)
           /\ threads[1].result.examples_count
                  = Cardinality(PositionsOfType("example"))
           /\ threads[1].result.docs_count = Cardinality(PositionsOfType("doc"))
           /\ threads[1].result.total_entries
                  = threads[1].result.examples_count
                    + threads[1].result.docs_count
    /\ (Idle /\ threads[1].op = "get_all_examples") =>
           ResultIsEntriesOfType(threads[1].result, "example")
    /\ (Idle /\ threads[1].op = "get_all_docs") =>
           ResultIsEntriesOfType(threads[1].result, "doc")
    /\ (Idle /\ threads[1].index # 0) =>
           /\ PositionsOfType("example") \cap PositionsOfType("doc") = { }
           /\ PositionsOfType("example") \cup PositionsOfType("doc")
                  = 1..Len(HeldEntries)

\* get_index_stats() has returned on an index of examples and documentation
C18_Witness ==
    /\ Idle
    /\ threads[1].op = "get_index_stats"
    /\ threads[1].result.examples_count >= 1
    /\ threads[1].result.docs_count >= 1

\* the texts of an entry are those of the source record it was built from
SameText(entry, item) ==
    /\ entry.title = item.title
    /\ entry.description = item.description
    /\ entry.content = item.content
    /\ entry.url = item.url
    /\ entry.category = item.category

\* C12: get_all_entries() returns every entry of the index, unfiltered, in
\* build order: one "example" entry per record of the example source, in its
\* order, then one "doc" entry per record of the documentation source, in its
\* order; with both sources empty the result is empty.
C12_GetAllEntriesInBuildOrder ==
    (Idle /\ threads[1].op = "get_all_entries") =>
        LET ne   == Len(AUTO_DISCOVERED_EXAMPLES)
            nd   == Len(DOCS_DATA)
            seen == threads[1].seen
        IN  /\ Len(seen) = ne + nd
            /\ \A i \in 1..ne :
                   /\ seen[i].type = "example"
                   /\ SameText(seen[i], AUTO_DISCOVERED_EXAMPLES[i])
            /\ \A j \in 1..nd :
                   /\ seen[ne + j].type = "doc"
                   /\ SameText(seen[ne + j], DOCS_DATA[j])

\* get_all_entries() has returned on an index built from examples and
\* documentation
C12_Witness ==
    /\ Idle
    /\ threads[1].op = "get_all_entries"
    /\ Len(AUTO_DISCOVERED_EXAMPLES) >= 1
    /\ Len(DOCS_DATA) >= 1
    /\ Len(threads[1].seen) = 2

(***************************************************************************)
(* The two-entry scenario, checked under SpecSearch.                       *)
(***************************************************************************)
\* the index holds exactly the two entries of the scenario
ScenarioIndex ==
    /\ Len(IndexEntries) = 2
    /\ \A i \in 1..2 : SameText(IndexEntries[i], ScenarioExamples[i])

\* search("search") has returned on the scenario's index
SearchedForSearch ==
    /\ ScenarioIndex
    /\ Searched
    /\ call.query = <<115, 101, 97, 114, 99, 104>>
    /\ call.limit = 10

\* search("load", limit=1) has returned on the scenario's index
SearchedForLoad ==
    /\ ScenarioIndex
    /\ Searched
    /\ call.query = <<108, 111, 97, 100>>
    /\ call.limit = 1

\* C13 as stated: search("search") returns exactly one result, "Active
\* Search", and the score computed for it is 120.
C13_Original ==
    SearchedForSearch =>
        /\ Len(call.result) = 1
        /\ call.result[1].title = ScenarioExamples[1].title
        /\ call.ranked[1][1] = 120

\* C13: search("search") returns exactly one result, "Active Search", and the
\* score computed for it is 175: 100 for the title, which contains the query
\* but does not start with it (no start bonus), 50 for the description and 25
\* for the content, with tier 3.
C13_SearchForSearch ==
    SearchedForSearch =>
        /\ Len(call.result) = 1
        /\ call.result[1].title = ScenarioExamples[1].title
        /\ call.ranked[1][1] = 175
        /\ call.ranked[1][2] = 3
        /\ ~StartsWith(Lower(ScenarioExamples[1].title), call.query)

C13_Witness == SearchedForSearch /\ Len(call.result) = 1

\* C14 as stated: search("load", limit=1) returns exactly one result, "Click
\* to Load", and that entry is a content-only match with score 25.
C14_Original ==
    SearchedForLoad =>
        /\ Len(call.result) = 1
        /\ call.result[1].title = ScenarioExamples[2].title
        /\ call.ranked[1][1] = 25
        /\ call.ranked[1][2] = 1

\* C14: search("load", limit=1) returns exactly one result, "Click to Load",
\* and that entry is a title match (tier 3) with score 125: 100 for the title,
\* which contains "load" once lowered, and 25 for the content.
C14_SearchForLoad ==
    SearchedForLoad =>
        /\ Len(call.result) = 1
        /\ call.result[1].title = ScenarioExamples[2].title
        /\ call.ranked[1][1] = 125
        /\ call.ranked[1][2] = 3

C14_Witness ==
    /\ SearchedForLoad
    /\ Len(call.result) = 1
    /\ call.result[1].type = "example"

(***************************************************************************)
(* Properties of QEntry conditions, checked under SpecQ.                   *)
(***************************************************************************)
\* a condition has been checked
Checked == call.op = "check"

\* the field name of the checked condition is none of field_map's
UnknownField == call.field_name \notin { "title", "description", "content" }

\* the lookup that check tests for the checked condition
LookupTested ==
    call.lookup \in { << >>, <<"icontains">>, <<"contains">>, <<"exact">>,
                      <<"iexact">> }

\* C15 as stated: for every entry, lookup type and value, a condition on a
\* field name other than title, description or content evaluates to no match
\* and get_q_field_value returns the empty string.
C15_Original ==
    (Checked /\ UnknownField) =>
        /\ call.result = FALSE
        /\ call.field_value = << >>

\* C15: for a field name other than title, description or content,
\* get_q_field_value returns the empty string and check returns a boolean; it
\* returns False exactly when the lookup is one of icontains, contains, exact
\* (also the default) and iexact and the value is not the empty string; with
\* the empty string as value or with another lookup type it returns True.
C15_UnknownFieldComparesAsEmpty ==
    (Checked /\ UnknownField) =>
        /\ call.field_value = << >>
        /\ call.result \in BOOLEAN
        /\ call.result = FALSE <=> (LookupTested /\ call.value # << >>)

\* a condition on the entry's category with a value the title contains was
\* checked and gave no match
C15_Witness ==
    /\ Checked
    /\ call.field_name = "category"
    /\ call.lookup = <<"icontains">>
    /\ call.value # << >>
    /\ Contains(Lower(call.value), Lower(call.entry.title))
    /\ call.result = FALSE

\* a condition of several children has been checked
CheckedAll == call.op = "check_all"

\* the child condition holds for the entry; a child whose lookup is none of
\* the four is ignored
ChildHolds(child, entry) ==
    LET field_value == get_q_field_value(entry, child[1][1])
        lookup      == Tail(child[1])
        value       == child[2]
    IN  /\ lookup = <<"icontains">> => IContains(value, field_value)
        /\ lookup = <<"contains">> => Contains(value, field_value)
        /\ lookup \in { << >>, <<"exact">> } => field_value = value
        /\ lookup = <<"iexact">> => Lower(field_value) = Lower(value)

\* C25: QEntry.check returns True exactly when every (field lookup, value)
\* child holds for the entry, for the lookups icontains, contains, exact (also
\* the default without a suffix) and iexact; a child with another lookup type
\* is ignored and causes no non-match.
C25_CheckIsConjunctionOfChildren ==
    /\ CheckedAll =>
           (call.result = TRUE <=>
               \A k \in 1..Len(call.children) :
                   ChildHolds(call.children[k], call.entry))
    /\ Checked =>
           (call.result = TRUE <=>
               ChildHolds(<< <<call.field_name>> \o call.lookup, call.value >>,
                          call.entry))

\* a condition of two children was checked, the first holding and the second
\* not, and gave no match
C25_Witness ==
    /\ CheckedAll
    /\ Len(call.children) = 2
    /\ ChildHolds(call.children[1], call.entry)
    /\ ~ChildHolds(call.children[2], call.entry)
    /\ call.children[2][1][1] = "title"
    /\ call.result = FALSE

(***************************************************************************)
(* Properties of datastar_response, checked under SpecDecorator.           *)
(***************************************************************************)
\* wrapper has been called
Wrapped == call.op = "wrapper"

\* the data of the events of a stream that come from the view, or from alerts
DataFrom(events, from) ==
    LET es == SelectSeq(events, LAMBDA ev : ev.from = from)
    IN  [i \in 1..Len(es) |-> es[i].data]

\* the events the statements of a body yield, in order
RECURSIVE YieldsOf(_)
YieldsOf(body) ==
    IF body = << >> THEN << >>
    ELSE (IF Head(body).op = "yield" THEN <<Head(body).arg>> ELSE << >>)
         \o YieldsOf(Tail(body))

IsPrefix(s, t) == Len(s) <= Len(t) /\ s = SubSeq(t, 1, Len(s))

\* C21: the stream emits the events the view yields, in the order yielded,
\* and no message alert before the last of them; an alert is emitted only
\* after the view's generator is exhausted, and a stream that ends has emitted
\* every event of the view and then one alert per message pending in the
\* request (those pending before the call, then those the view added), in
\* storage order; an exception raised by calling the view leaves wrapper
\* without a response or an event.
C21_ViewEventsThenMessageAlerts ==
    Wrapped =>
        LET body   == call.view.body
            views  == DataFrom(call.events, "view")
            alerts == DataFrom(call.events, "alert")
        IN  /\ IsPrefix(views, YieldsOf(body))
            /\ \A i, j \in 1..Len(call.events) :
                   (i < j /\ call.events[i].from = "alert") =>
                       call.events[j].from = "alert"
            /\ alerts # << >> =>
                   /\ views = YieldsOf(body)
                   /\ FirstRaise(body) = 0
                   /\ call.ip = Len(body)
            /\ (call.pc = "done" /\ call.raised = "none") =>
                   /\ views = YieldsOf(body)
                   /\ alerts = messages.queue
                   /\ \E q \in SeqUpTo({ "m0" }, 1) :
                          alerts = q \o MessagesOf(body)
            /\ (call.view.kind = "function" /\ FirstRaise(body) # 0) =>
                   /\ call.raised = "wrapper"
                   /\ call.pc = "done"
                   /\ call.events = << >>

\* a stream has ended after an event of the view and two alerts, for a message
\* pending before the call and for one the view added
C21_Witness ==
    /\ Wrapped
    /\ call.pc = "done"
    /\ call.raised = "none"
    /\ Len(DataFrom(call.events, "view")) >= 1
    /\ DataFrom(call.events, "alert") = <<"m0", "m1">>

(***************************************************************************)
(* Properties of cleanup_temp_files, checked under SpecCleanup.            *)
(***************************************************************************)
\* cleanup_temp_files has returned
CleanedUp == call.op = "cleanup_temp_files" /\ call.pc = "done"

\* the names of the files the call found and that are gone
DeletedFiles == (DOMAIN call.before.files) \ (DOMAIN default_storage.files)

\* the names of the files the call is to delete: not hidden, modified
\* strictly before now minus max_age_hours, and no storage call failing
FilesToDelete ==
    { name \in DOMAIN call.before.files :
        /\ name[1] # 46
        /\ call.before.files[name].mtime
               < Now - call.max_age_hours * SecondsPerHour
        /\ call.before.files[name].raises = "none" }

LastView(view) == requests # << >> /\ requests[1].view = view

\* C26: todomvc_toggle_view flips is_completed of the todo that todoToggleId
\* names and changes no other field and no other todo; a second toggle of
\* the same todo right after gives the table back as it was before the
\* first; with an id that names no todo the view raises Http404 and the
\* table is unchanged.
C26_ToggleFlipsExactlyThatTodo ==
    [][(requests' # << >> /\ requests'[1].view = "todomvc_toggle_view") =>
         LET signals == requests'[1].signals IN
         IF Found(Todo.rows, signals, "todoToggleId")
         THEN LET todo_id == signals["todoToggleId"] IN
              /\ requests'[1].raised = "none"
              /\ Todo'.seq = Todo.seq
              /\ DOMAIN Todo'.rows = DOMAIN Todo.rows
              /\ \A pk \in DOMAIN Todo.rows :
                    IF pk = todo_id
                    THEN /\ Todo'.rows[pk].is_completed
                               = ~Todo.rows[pk].is_completed
                         /\ Todo'.rows[pk].title = Todo.rows[pk].title
                         /\ Todo'.rows[pk].order = Todo.rows[pk].order
                         /\ Todo'.rows[pk].created_at
                               = Todo.rows[pk].created_at
                    ELSE Todo'.rows[pk] = Todo.rows[pk]
              /\ (/\ LastView("todomvc_toggle_view")
                  /\ requests[1].raised = "none"
                  /\ requests[1].signals["todoToggleId"] = todo_id)
                    => Todo' = requests[1].before
         ELSE /\ requests'[1].raised = "Http404"
              /\ Todo' = Todo]_vars

\* a todo was toggled twice in a row while the table holds another todo
C26_Witness ==
    /\ LastView("todomvc_toggle_view")
    /\ requests[1].raised = "none"
    /\ Cardinality(DOMAIN Todo.rows) >= 2
    /\ LET todo_id == requests[1].signals["todoToggleId"] IN
         /\ Todo.rows[todo_id].is_completed
               # requests[1].before.rows[todo_id].is_completed
         /\ ~Todo.rows[todo_id].is_completed
         /\ \E pk \in DOMAIN Todo.rows : Todo.rows[pk].is_completed

\* C28: when todomvc_clear_view has run, the table holds no completed todo,
\* and every todo that was not completed is still there with every field as
\* it was.
C28_ClearRemovesExactlyCompleted ==
    [][(requests' # << >> /\ requests'[1].view = "todomvc_clear_view") =>
         /\ \A pk \in DOMAIN Todo'.rows : ~Todo'.rows[pk].is_completed
         /\ \A pk \in DOMAIN Todo.rows :
               ~Todo.rows[pk].is_completed =>
                   /\ pk \in DOMAIN Todo'.rows
                   /\ Todo'.rows[pk] = Todo.rows[pk]]_vars

\* a clear of a table that held completed and active todos
C28_Witness ==
    /\ LastView("todomvc_clear_view")
    /\ \E pk \in DOMAIN requests[1].before.rows :
          requests[1].before.rows[pk].is_completed
    /\ \E pk \in DOMAIN requests[1].before.rows :
          ~requests[1].before.rows[pk].is_completed
    /\ Todo.rows # << >>
    /\ Cardinality(DOMAIN Todo.rows)
          < Cardinality(DOMAIN requests[1].before.rows)

(***************************************************************************)
(* Properties of todomvc_add_view, checked under SpecAdd.                  *)
(***************************************************************************)
\* the requests whose todo has been created
Added == { r \in Requests : requests[r].pc = "counts"
                               \/ (requests[r].pc = "done"
                                     /\ requests[r].view = "todomvc_add_view"
                                     /\ requests[r].events # << >>) }

\* C27: the todo that todomvc_add_view creates has an order strictly
\* greater than the order of every todo in the table at its creation, and 0
\* in an empty table, so that it is the first of Todo.objects.all(); no two
\* todos created by add requests have the same order, however the requests
\* interleave; a request whose title is blank after strip() creates no todo
\* and ends at once.
C27_AddOrderAboveEveryExisting ==
    /\ [](/\ \A r1, r2 \in Added :
               r1 # r2 => Todo.rows[requests[r1].todo].order
                            # Todo.rows[requests[r2].todo].order
          /\ \A r \in Requests :
                (/\ requests[r].view = "todomvc_add_view"
                 /\ strip(requests[r].POST_title) = << >>)
                    => requests[r].pc = "done" /\ requests[r].events = << >>)
    /\ [][Todo'.seq # Todo.seq =>
            LET pk == Todo'.seq IN
            /\ DOMAIN Todo'.rows = (DOMAIN Todo.rows) \cup { pk }
            /\ \A k \in DOMAIN Todo.rows :
                  /\ Todo'.rows[k] = Todo.rows[k]
                  /\ Todo'.rows[pk].order > Todo.rows[k].order
            /\ Todo.rows = << >> => Todo'.rows[pk].order = 0
            /\ Todo_objects_all(Todo'.rows)[1] = pk]_vars

(***************************************************************************)
(* Properties of notifications_mark_read_view, checked under               *)
(* SpecNotifications.                                                      *)
(***************************************************************************)
\* the unread notifications of a table
Unread(rows) == { pk \in DOMAIN rows : ~rows[pk].read }

\* C29: with a notificationId (one that Python takes as true) the view
\* marks the notification of that key read and changes no other row; with
\* none it marks every unread notification read; the notificationCount it
\* emits is the number of notifications unread after the update, 0 when
\* all were marked; no row's read goes from true to false, and no other
\* field and no key changes.  An id without a row raises Http404 and
\* changes nothing.
C29_MarkReadMarksThatOneOrAll ==
    [][(requests' # << >>
          /\ requests'[1].view = "notifications_mark_read_view") =>
         LET signals == requests'[1].signals
             r == requests'[1]
         IN
         /\ DOMAIN Notification' = DOMAIN Notification
         /\ \A pk \in DOMAIN Notification :
               /\ Notification[pk].read => Notification'[pk].read
               /\ [Notification'[pk] EXCEPT !.read = TRUE]
                     = [Notification[pk] EXCEPT !.read = TRUE]
         /\ IF notification_id_Truthy(signals)
            THEN IF Found(Notification, signals, "notificationId")
                 THEN /\ r.raised = "none"
                      /\ Notification'[signals["notificationId"]].read
                      /\ \A pk \in DOMAIN Notification :
                            pk # signals["notificationId"]
                                => Notification'[pk] = Notification[pk]
                      /\ r.events[1].notificationCount
                            = Cardinality(Unread(Notification'))
                 ELSE /\ r.raised = "Http404"
                      /\ Notification' = Notification
            ELSE /\ r.raised = "none"
                 /\ Unread(Notification') = { }
                 /\ r.events[1].notificationCount = 0]_vars

\* one unread notification of several was marked read by its id, and
\* another is still unread
C29_Witness ==
    /\ LastView("notifications_mark_read_view")
    /\ requests[1].raised = "none"
    /\ notification_id_Truthy(requests[1].signals)
    /\ ~requests[1].before[requests[1].signals["notificationId"]].read
    /\ requests[1].events[1].notificationCount = 1
    /\ Cardinality(DOMAIN Notification) = MaxRows

(***************************************************************************)
(* Properties of sortable_view, checked under SpecSortable.                *)
(***************************************************************************)
\* the step serves a Datastar request that has an 'order' signal
ReorderStep ==
    /\ requests' # << >>
    /\ requests'[1].view = "sortable_view"
    /\ requests'[1].Datastar_Request
    /\ Has(requests'[1].signals, "order")

\* the keys in the list
Listed(current_order) ==
    { current_order[i] : i \in DOMAIN current_order }

\* the list holds every key of the table once and nothing else
IsPermutation(current_order, rows) ==
    /\ Listed(current_order) = DOMAIN rows
    /\ Len(current_order) = Cardinality(DOMAIN rows)

\* with the list a permutation of the table's keys, the orders are 1..n,
\* each once, and Item.objects.all() gives the keys as the list does
PermutationReproduced(current_order, rows) ==
    IsPermutation(current_order, rows) =>
        /\ { rows[pk].order : pk \in DOMAIN rows } = 1..Len(current_order)
        /\ \A pk1, pk2 \in DOMAIN rows :
              rows[pk1].order = rows[pk2].order => pk1 = pk2
        /\ Item_objects_all(rows) = { current_order }

\* C30 as stated: a reorder request sets the order of every item whose key
\* is in the list to a position of that key in the list and leaves the
\* other items unchanged, whatever else the list holds.
C30_Original ==
    [][ReorderStep =>
         LET current_order == requests'[1].signals["order"] IN
         /\ DOMAIN Item' = DOMAIN Item
         /\ \A pk \in DOMAIN Item :
               IF pk \in Listed(current_order)
               THEN \E i \in DOMAIN current_order :
                        current_order[i] = pk /\ Item'[pk].order = i
               ELSE Item'[pk] = Item[pk]
         /\ PermutationReproduced(current_order, Item')]_vars

\* C30: on a Datastar reorder request whose list holds keys of items only,
\* sortable_view sets the order of each listed item to the 1-based position
\* of its key's first occurrence in the list and changes nothing else; for
\* a permutation of all keys the orders are exactly 1..n without duplicates
\* and Item's ascending ordering gives the submitted sequence.  If the list
\* holds a key that is no item's, Item.DoesNotExist is raised and no item
\* changes.
C30_ReorderSetsPositionsOfKnownKeys ==
    [][ReorderStep =>
         LET current_order == requests'[1].signals["order"] IN
         IF Listed(current_order) \subseteq DOMAIN Item
         THEN /\ requests'[1].raised = "none"
              /\ DOMAIN Item' = DOMAIN Item
              /\ \A pk \in DOMAIN Item :
                    IF pk \in Listed(current_order)
                    THEN /\ \E i \in DOMAIN current_order :
                               /\ current_order[i] = pk
                               /\ \A j \in 1..(i - 1) : current_order[j] # pk
                               /\ Item'[pk].order = i
                         /\ Item'[pk].name = Item[pk].name
                    ELSE Item'[pk] = Item[pk]
              /\ PermutationReproduced(current_order, Item')
         ELSE /\ requests'[1].raised = "Item.DoesNotExist"
              /\ Item' = Item]_vars

\* all items were reordered against their keys, none keeping its position
C30_Witness ==
    /\ LastView("sortable_view")
    /\ requests[1].Datastar_Request
    /\ requests[1].raised = "none"
    /\ Has(requests[1].signals, "order")
    /\ Cardinality(DOMAIN Item) = MaxItems
    /\ IsPermutation(requests[1].signals["order"], Item)
    /\ \A i \in DOMAIN requests[1].signals["order"] :
          /\ requests[1].signals["order"][i] # i
          /\ Item[requests[1].signals["order"][i]].order = i

=============================================================================
